---- MODULE Spec2Model ----
(***************************************************************************)
(* A model of the configuration plumbing of H2Integrate:                   *)
(*   - H2IntegrateModel.__init__ and run (core/h2integrate_model.py),      *)
(*   - HOPPComponent and its file cache (converters/hopp/hopp_wrapper.py), *)
(*   - PassThroughOpenLoopController (controllers/openloop_controller*.py).*)
(*   - AmmoniaSynLoopPerformanceModel (converters/ammonia).                 *)
(* Python dictionaries are records or functions, None is the string None,  *)
(* a raised exception is a record in the variable raised.                  *)
(***************************************************************************)
EXTENDS Integers, Sequences, FiniteSets, TLC

VARIABLES
    \* ---- H2IntegrateModel -------------------------------------------------
    technology_config,   \* self.technology_config["technologies"], in order
    plant_config,        \* self.plant_config
    driver_config,       \* self.driver_config
    supported_models,    \* self.supported_models: model name -> class
    pc,                  \* the statement of __init__ / run about to execute
    cursor,              \* index of the loop iteration about to execute
    raised,              \* the exception that ended construction, or NoException
    subsystems,          \* the add_subsystem calls made so far, in order
    connections,         \* the connect calls made so far, in order
    tech_names,          \* self.tech_names
    model_lists,         \* self.performance_models, control_models, cost_models,
                         \* financial_models, keyed by model type
    financial_groups,    \* self.financial_groups, or Unset
    combiner_counts,     \* combiner_counts of connect_technologies
    plant,               \* self.plant: its options and solvers
    prob,                \* self.prob: driver, recorder, setup() and run_driver()
    \* ---- HOPPComponent ----------------------------------------------------
    hopp_options,        \* self.options: the performance model's config,
                         \* plant_life and tech_config's electrolyzer_rating
    hopp_cache,          \* self.cache
    cache_dir,           \* the directory cache/ exists
    cache_files,         \* the files of cache/: file name -> pickled objects
    hopp_outputs,        \* the six outputs of the component
    hopp_raised,         \* the exception that ended the last compute
    hopp_calls,          \* how often setup_hopp and run_hopp were called
    computes,            \* the compute calls made so far, in order
    \* ---- PassThroughOpenLoopController ------------------------------------
    controller,          \* the module the class is taken from
    resource_in,         \* inputs[f"{resource_name}_in"]
    resource_out,        \* outputs[f"{resource_name}_out"]
    partials,            \* what setup_partials has declared, in a sequence
    \* ---- AmmoniaSynLoopPerformanceModel -----------------------------------
    synloop_config,      \* self.config
    synloop_inputs,      \* hydrogen_in, nitrogen_in and electricity_in
    synloop_outputs,     \* the five outputs of the component
    synloop_runs         \* how often compute has run

hopp_vars == <<hopp_options, hopp_cache, cache_dir, cache_files, hopp_outputs,
               hopp_raised, hopp_calls, computes>>

controller_vars == <<controller, resource_in, resource_out, partials>>

synloop_vars == <<synloop_config, synloop_inputs, synloop_outputs, synloop_runs>>

component_vars == <<hopp_vars, controller_vars, synloop_vars>>

config_vars == <<technology_config, plant_config, driver_config>>

graph_vars == <<subsystems, connections, tech_names, model_lists,
                financial_groups, combiner_counts, plant, prob>>

vars == <<technology_config, plant_config, driver_config, supported_models,
          pc, cursor, raised, subsystems, connections, tech_names, model_lists,
          financial_groups, combiner_counts, plant, prob,
          hopp_vars, controller_vars, synloop_vars>>

model_vars == <<config_vars, supported_models, pc, cursor, raised, graph_vars>>

(***************************************************************************)
(* Python values                                                           *)
(***************************************************************************)
None == "None"

\* `not x` for an optional string: None and the empty string are falsy.
Falsy(x) == x = None \/ x = ""

NoException == [type |-> "None", msg |-> "", stage |-> ""]

Exception(type, msg, stage) == [type |-> type, msg |-> msg, stage |-> stage]

(***************************************************************************)
(* supported_models.py: the built-in models                                *)
(***************************************************************************)
BuiltinModelNames ==
    { "river_resource",
      "wind_plant_performance", "wind_plant_cost",
      "pysam_wind_plant_performance", "pysam_solar_plant_performance",
      "run_of_river_hydro_performance", "run_of_river_hydro_cost",
      "pem_electrolyzer_performance", "pem_electrolyzer_cost",
      "eco_pem_electrolyzer_performance", "singlitico_electrolyzer_cost",
      "basic_electrolyzer_cost", "h2_storage", "hopp",
      "reverse_osmosis_desalination_performance",
      "reverse_osmosis_desalination_cost",
      "simple_ammonia_performance", "simple_ammonia_cost",
      "steel_performance", "steel_cost",
      "smr_methanol_plant_performance", "smr_methanol_plant_cost",
      "methanol_plant_financial",
      "cable", "pipe", "combiner_performance",
      "hydrogen_tank_performance", "hydrogen_tank_cost" }

\* A class is known by the file that defines it and its name.
BuiltinClass(name) == [location |-> "h2integrate", class_name |-> name]

\* supported_models.copy() of __init__
builtin_supported_models == [n \in BuiltinModelNames |-> BuiltinClass(n)]

electricity_producing_techs == <<"wind", "solar", "river", "hopp">>

(***************************************************************************)
(* The technology configuration                                            *)
(***************************************************************************)
\* The model types collect_custom_models visits, in its order.
model_types == <<"performance_model", "cost_model", "financial_model">>

\* A model entry of a technology: absent, or a dictionary whose keys
\* model, model_class_name, model_location, group read None when not given.
AbsentEntry ==
    [present |-> FALSE, model |-> None, model_class_name |-> None,
     model_location |-> None, group |-> None]

Entry(model, class_name, location, group) ==
    [present |-> TRUE, model |-> model, model_class_name |-> class_name,
     model_location |-> location, group |-> group]

Technology(name, perf, cost, fin, ctrl) ==
    [name |-> name, performance_model |-> perf, cost_model |-> cost,
     financial_model |-> fin, control_model |-> ctrl]

\* The files under the technology configuration's directory.
ExistingPaths == {"my_model.py"}

\* Path.exists() of tech_config_path.parent / model_location
PathExists(model_location) == model_location \in ExistingPaths

\* importlib's load of model_class_name from the file at model_location
LoadClass(model_location, model_class_name) ==
    [location |-> model_location, class_name |-> model_class_name]

(***************************************************************************)
(* The state when __init__ has loaded the configuration (lines 26-29)      *)
(***************************************************************************)
Unset == <<>>

Constructing ==
    /\ supported_models = builtin_supported_models
    /\ pc = "collect_custom_models"
    /\ cursor = 1
    /\ raised = NoException
    /\ subsystems = <<>>
    /\ connections = <<>>
    /\ tech_names = <<>>
    /\ model_lists = [performance_model |-> <<>>, control_model |-> <<>>,
                      cost_model |-> <<>>, financial_model |-> <<>>]
    /\ financial_groups = Unset
    /\ combiner_counts = <<>>
    /\ plant = [auto_order |-> FALSE, nonlinear_solver |-> "NonlinearRunOnce",
                linear_solver |-> "LinearRunOnce"]
    /\ prob = [driver |-> "Driver", recorder |-> FALSE, setup |-> 0, run_driver |-> 0]

(***************************************************************************)
(* collect_custom_models: one iteration of its double loop                 *)
(***************************************************************************)
NumSlots == Len(technology_config) * Len(model_types)
SlotTech(k) == ((k - 1) \div Len(model_types)) + 1
SlotType(k) == model_types[((k - 1) % Len(model_types)) + 1]
SlotEntry(k) == technology_config[SlotTech(k)][SlotType(k)]

\* line 88: the entry is taken for a custom model
IsCustomBranch(model_name, supported) ==
    (model_name \notin DOMAIN supported) /\ (model_name # None)

\* A faulty variant of MissingCustomFields: an empty string passes.
MissingCustomFields_Mut(entry) ==
    entry.model_class_name = None \/ entry.model_location = None
\* line 92: the custom model lacks its class name or its location
MissingCustomFields(entry) ==
    Falsy(entry.model_class_name) \/ Falsy(entry.model_location)

\* A faulty variant of SpecifiesCustomDefinition: both fields are needed.
SpecifiesCustomDefinition_Mut(entry) ==
    entry.model_class_name # None /\ entry.model_location # None
\* lines 116-119: a custom definition is given for a supported model name
SpecifiesCustomDefinition(entry) ==
    entry.model_class_name # None \/ entry.model_location # None

\* lines 86-128: what one (technology, model type) iteration does to
\* self.supported_models, and the exception it raises
ProcessCustomEntry(entry, supported) ==
    IF ~entry.present
    THEN [supported |-> supported, raised |-> NoException]
    ELSE IF IsCustomBranch(entry.model, supported)
    THEN IF MissingCustomFields(entry)
         THEN [supported |-> supported,
               raised |-> Exception("ValueError", "must_specify_class_and_location",
                                    "collect_custom_models")]
         ELSE IF ~PathExists(entry.model_location)
         THEN [supported |-> supported,
               raised |-> Exception("FileNotFoundError", "location_does_not_exist",
                                    "collect_custom_models")]
         ELSE [supported |->
                   [n \in DOMAIN supported \cup {entry.model} |->
                       IF n = entry.model
                       THEN LoadClass(entry.model_location, entry.model_class_name)
                       ELSE supported[n]],
               raised |-> NoException]
    ELSE IF SpecifiesCustomDefinition(entry)
         THEN [supported |-> supported,
               raised |-> Exception("ValueError", "name_clash_with_builtin",
                                    "collect_custom_models")]
         ELSE [supported |-> supported, raised |-> NoException]

\* One iteration of the loops of lines 84-85.
CollectStep ==
    /\ pc = "collect_custom_models"
    /\ cursor <= NumSlots
    /\ LET out == ProcessCustomEntry(SlotEntry(cursor), supported_models)
       IN  /\ supported_models' = out.supported
           /\ raised' = out.raised
           /\ pc' = IF out.raised = NoException THEN pc ELSE "raised"
           /\ cursor' = IF out.raised = NoException THEN cursor + 1 ELSE cursor
    /\ UNCHANGED <<component_vars, config_vars, graph_vars>>

\* The loops are exhausted: collect_custom_models returns, __init__ makes
\* the om.Problem (lines 34-35) and goes on to create_site_model.
CollectReturn ==
    /\ pc = "collect_custom_models"
    /\ cursor > NumSlots
    /\ pc' = "create_site_model"
    /\ cursor' = 1
    /\ UNCHANGED <<component_vars, config_vars, graph_vars, supported_models, raised>>

(***************************************************************************)
(* Strings                                                                 *)
(***************************************************************************)
\* The parts a name of the configurations is made of: Python's `sub in name`
\* and name.startswith(sub) are read off this table.
Parts(name) ==
    CASE name = "h2_storage"         -> {"h2_storage", "h2_", "h2", "storage"}
      [] name = "ng_feedstocks"      -> {"ng_feedstocks", "ng_", "feedstocks"}
      [] name = "combiner_1"         -> {"combiner_1", "combiner"}
      [] name = "combiner_2"         -> {"combiner_2", "combiner"}
      [] name = "financials_group_1" -> {"financials_group_1", "financials_group_"}
      [] name = "financials_group_2" -> {"financials_group_2", "financials_group_"}
      [] OTHER                       -> {name}

Prefixes(name) ==
    CASE name = "h2_storage"         -> {"h2_storage", "h2_", "h2"}
      [] name = "ng_feedstocks"      -> {"ng_feedstocks", "ng_"}
      [] name = "combiner_1"         -> {"combiner_1", "combiner"}
      [] name = "combiner_2"         -> {"combiner_2", "combiner"}
      [] name = "financials_group_1" -> {"financials_group_1", "financials_group_"}
      [] name = "financials_group_2" -> {"financials_group_2", "financials_group_"}
      [] OTHER                       -> {name}

\* sub in name
Contains(sub, name) == sub \in Parts(name)

\* name.startswith(sub)
StartsWith(name, sub) == sub \in Prefixes(name)

\* str(n) inside an f-string
IntStr(n) ==
    CASE n = 0 -> "0" [] n = 1 -> "1" [] n = 2 -> "2" [] n = 3 -> "3"
      [] n = 4 -> "4" [] n = 5 -> "5" [] n = 6 -> "6" [] n = 7 -> "7"
      [] n = 8 -> "8" [] n = 9 -> "9"

\* tech in electricity_producing_techs
IsElectricityProducer(name) ==
    \E i \in 1 .. Len(electricity_producing_techs) : electricity_producing_techs[i] = name

\* An f-string is the sequence of its pieces; a subsystem is known by the
\* group it is added to, its name and its component.
Subsystem(parent, name, comp) == [parent |-> parent, name |-> name, comp |-> comp]

Connection(group, src, tgt) == [group |-> group, src |-> src, tgt |-> tgt]

(***************************************************************************)
(* create_site_model and create_plant_model                                *)
(***************************************************************************)
RECURSIVE SiteResources(_, _)
\* lines 151-158: the resources of the site that name a supported model
SiteResources(resources, supported) ==
    IF resources = <<>> THEN <<>>
    ELSE LET r == Head(resources)
             rest == SiteResources(Tail(resources), supported)
         IN  IF r \in DOMAIN supported
             THEN <<Subsystem(<<"site">>, <<r>>, supported[r])>> \o rest
             ELSE rest

CreateSiteModel ==
    /\ pc = "create_site_model"
    /\ subsystems' = subsystems
            \o <<Subsystem(<<"site">>, <<"site_component">>, "IndepVarComp")>>
            \o SiteResources(plant_config.resources, supported_models)
            \o <<Subsystem(<<"model">>, <<"site">>, "Group")>>
    /\ pc' = "create_plant_model"
    /\ UNCHANGED <<component_vars, config_vars, supported_models, cursor, raised, connections,
                   tech_names, model_lists, financial_groups, combiner_counts,
                   plant, prob>>

CreatePlantModel ==
    /\ pc = "create_plant_model"
    /\ subsystems' = Append(subsystems, Subsystem(<<"model">>, <<"plant">>, "Group"))
    /\ pc' = "create_technology_models"
    /\ cursor' = 1
    /\ UNCHANGED <<component_vars, config_vars, supported_models, raised, connections,
                   tech_names, model_lists, financial_groups, combiner_counts,
                   plant, prob>>

(***************************************************************************)
(* create_technology_models: one iteration of its loop                     *)
(***************************************************************************)
combined_performance_and_cost_models == {"hopp", "h2_storage", "wombat"}

Truthy(x) == ~Falsy(x)

\* What an iteration has built so far: the subsystems, the model lists and
\* the exception that stopped it.
Built(subs, lists, exc) == [subsystems |-> subs, model_lists |-> lists, raised |-> exc]

\* lines 256-265 and the append of its caller (lines 224, 235)
process_model(b, model_type, tech, supported) ==
    LET model_name == tech[model_type].model
    IN  IF b.raised # NoException THEN b
        ELSE IF model_name = None
        THEN [b EXCEPT !.raised = Exception("KeyError", "model", "create_technology_models")]
        ELSE IF model_name \notin DOMAIN supported
        THEN [b EXCEPT !.raised = Exception("KeyError", model_name, "create_technology_models")]
        ELSE Built(Append(b.subsystems,
                          Subsystem(<<tech.name>>, <<model_name>>, supported[model_name])),
                   [b.model_lists EXCEPT ![model_type] = Append(@, supported[model_name])],
                   NoException)

\* A faulty variant of IsRequiredModel: no model type is required.
IsRequiredModel_Mut(model_type) == FALSE
\* line 236: the model type every technology has to define
IsRequiredModel(model_type) == model_type = "performance_model"

\* lines 231-237: one pass of the loop over performance, control and cost model
process_model_type(b, model_type, tech, supported) ==
    IF b.raised # NoException THEN b
    ELSE IF tech[model_type].present
    THEN process_model(b, model_type, tech, supported)
    ELSE IF IsRequiredModel(model_type)
    THEN [b EXCEPT !.raised = Exception("Exception", "requires_performance_model",
                                        "create_technology_models")]
    ELSE b

\* lines 240-254
process_financial_model(b, tech, supported) ==
    LET fin == tech.financial_model
    IN  IF b.raised # NoException \/ ~fin.present \/ fin.model = None THEN b
        ELSE IF fin.model \notin DOMAIN supported
        THEN [b EXCEPT !.raised = Exception("KeyError", fin.model, "create_technology_models")]
        ELSE Built(Append(b.subsystems,
                          Subsystem(<<tech.name>>, <<tech.name, "_financial">>,
                                    supported[fin.model])),
                   [b.model_lists EXCEPT !.financial_model = Append(@, supported[fin.model])],
                   NoException)

\* lines 204-208
IsCombinedModel(tech) ==
    /\ Truthy(tech.performance_model.model)
    /\ tech.performance_model.model = tech.cost_model.model
    /\ tech.performance_model.model \in combined_performance_and_cost_models

\* lines 209-225
combined_model(b, tech, supported) ==
    LET perf_model == tech.performance_model.model
    IN  IF perf_model \notin DOMAIN supported
        THEN [b EXCEPT !.raised = Exception("KeyError", perf_model, "create_technology_models")]
        ELSE LET comp == supported[perf_model]
                 b1 == Built(Append(b.subsystems, Subsystem(<<tech.name>>, <<tech.name>>, comp)),
                             [b.model_lists EXCEPT
                                 !.performance_model = Append(@, comp),
                                 !.cost_model = Append(@, comp),
                                 !.financial_model = Append(@, comp)],
                             NoException)
             IN  IF tech.control_model.present
                 THEN process_model(b1, "control_model", tech, supported)
                 ELSE b1

\* lines 191-254, for one technology that is not a feedstock
technology_models(b, tech, supported) ==
    IF IsCombinedModel(tech)
    THEN combined_model(b, tech, supported)
    ELSE process_financial_model(
             process_model_type(
                 process_model_type(
                     process_model_type(b, "performance_model", tech, supported),
                     "control_model", tech, supported),
                 "cost_model", tech, supported),
             tech, supported)

\* A faulty variant of IsFeedstock: the name has to be feedstocks itself.
IsFeedstock_Mut(tech_name) == tech_name = "feedstocks"

\* line 192
IsFeedstock(tech_name) == Contains("feedstocks", tech_name)

CreateTechnologyStep ==
    /\ pc = "create_technology_models"
    /\ cursor <= Len(technology_config)
    /\ LET tech == technology_config[cursor]
       IN  IF IsFeedstock(tech.name)
           THEN /\ subsystems' = Append(subsystems,
                        Subsystem(<<"plant">>, <<tech.name>>, "FeedstockComponent"))
                /\ cursor' = cursor + 1
                /\ UNCHANGED <<tech_names, model_lists, raised, pc>>
           ELSE LET b == technology_models(
                             Built(Append(subsystems,
                                          Subsystem(<<"plant">>, <<tech.name>>, "Group")),
                                   model_lists, NoException),
                             tech, supported_models)
                IN  /\ subsystems' = b.subsystems
                    /\ model_lists' = b.model_lists
                    /\ tech_names' = Append(tech_names, tech.name)
                    /\ raised' = b.raised
                    /\ pc' = IF b.raised = NoException THEN pc ELSE "raised"
                    /\ cursor' = IF b.raised = NoException THEN cursor + 1 ELSE cursor
    /\ UNCHANGED <<component_vars, config_vars, supported_models, connections, financial_groups,
                   combiner_counts, plant, prob>>

CreateTechnologyReturn ==
    /\ pc = "create_technology_models"
    /\ cursor > Len(technology_config)
    /\ pc' = "create_financial_model"
    /\ cursor' = 1
    /\ UNCHANGED <<component_vars, config_vars, supported_models, raised, graph_vars>>

(***************************************************************************)
(* create_financial_model                                                  *)
(***************************************************************************)
FinancialGroup(id, techs) == [id |-> id, techs |-> techs]

\* tech in tech_configs, the technologies of a financial group
InGroup(name, techs) == \E i \in 1 .. Len(techs) : techs[i] = name

RECURSIVE add_to_financial_groups(_, _)
\* lines 282-287: each technology joins the group its financial_model names
add_to_financial_groups(groups, techs) ==
    IF techs = <<>> THEN groups
    ELSE LET tech == Head(techs)
             financial_group_id == tech.financial_model.group
         IN  IF financial_group_id = None
             THEN add_to_financial_groups(groups, Tail(techs))
             ELSE IF \E i \in 1 .. Len(groups) : groups[i].id = financial_group_id
             THEN add_to_financial_groups(
                      [i \in 1 .. Len(groups) |->
                          IF groups[i].id = financial_group_id
                          THEN FinancialGroup(groups[i].id, Append(groups[i].techs, tech.name))
                          ELSE groups[i]],
                      Tail(techs))
             ELSE add_to_financial_groups(
                      Append(groups, FinancialGroup(financial_group_id, <<tech.name>>)),
                      Tail(techs))

\* A faulty variant of build_financial_groups: the declared groups are
\* ignored.
build_financial_groups_Mut(techs) ==
    <<FinancialGroup("1", [i \in 1 .. Len(techs) |-> techs[i].name])>>

\* lines 279-291
build_financial_groups(techs) ==
    LET groups == add_to_financial_groups(<<>>, techs)
    IN  IF groups = <<>>
        THEN <<FinancialGroup("1", [i \in 1 .. Len(techs) |-> techs[i].name])>>
        ELSE groups

\* lines 295-311
commodity_types(techs) ==
    (IF InGroup("steel", techs) THEN <<"steel">> ELSE <<>>)
    \o (IF InGroup("electrolyzer", techs) THEN <<"hydrogen">> ELSE <<>>)
    \o (IF InGroup("methanol", techs) THEN <<"methanol">> ELSE <<>>)
    \o (IF InGroup("ammonia", techs) THEN <<"ammonia">> ELSE <<>>)
    \o (IF InGroup("geoh2", techs) THEN <<"hydrogen">> ELSE <<>>)
    \o (IF InGroup("doc", techs) THEN <<"co2">> ELSE <<>>)
    \o [i \in 1 .. Len(SelectSeq(electricity_producing_techs,
                                 LAMBDA tech : InGroup(tech, techs))) |-> "electricity"]

\* lines 313-322: the group gets no financials_group subsystem
SkippedInFinancialModel(techs) ==
    LET types == commodity_types(techs)
    IN  \/ \E i \in 1 .. Len(types) : types[i] \in {"steel", "methanol"}
        \/ InGroup("geoh2", techs)
        \/ types = <<>>

financials_group_name(group_id) == <<"financials_group_", group_id>>

\* lines 324-348, for one group
financial_group_subsystems(group) ==
    LET name == financials_group_name(group.id)
        types == commodity_types(group.techs)
    IN  <<Subsystem(name, <<"electricity_sum">>, "ElectricitySumComp"),
          Subsystem(name, <<"adjusted_capex_opex_comp">>, "AdjustedCapexOpexComp")>>
        \o [idx \in 1 .. Len(types) |->
               Subsystem(name, <<"profast_comp_", IntStr(idx - 1)>>,
                         <<"ProFastComp", types[idx]>>)]
        \o <<Subsystem(<<"plant">>, name, "Group")>>

RECURSIVE financial_subsystems(_)
\* lines 294-348
financial_subsystems(groups) ==
    IF groups = <<>> THEN <<>>
    ELSE (IF SkippedInFinancialModel(Head(groups).techs)
          THEN <<>>
          ELSE financial_group_subsystems(Head(groups)))
         \o financial_subsystems(Tail(groups))

\* line 275
ReturnsWithoutFinancials(config) == ~config.finance_parameters

CreateFinancialModel ==
    /\ pc = "create_financial_model"
    /\ IF ReturnsWithoutFinancials(plant_config)
       THEN UNCHANGED <<subsystems, financial_groups>>
       ELSE LET groups == build_financial_groups(technology_config)
            IN  /\ subsystems' = subsystems \o financial_subsystems(groups)
                /\ financial_groups' = groups
    /\ pc' = "connect_technologies"
    /\ cursor' = 1
    /\ UNCHANGED <<component_vars, config_vars, supported_models, raised, connections, tech_names,
                   model_lists, combiner_counts, plant, prob>>

(***************************************************************************)
(* connect_technologies                                                    *)
(***************************************************************************)
\* line 364
connection_name(source_tech, dest_tech, transport_type) ==
    <<source_tech, "_to_", dest_tech, "_", transport_type>>

\* A faulty variant of count_combiner: one counter for all combiners.
count_combiner_Mut(counts, dest_tech) ==
    LET last == IF DOMAIN counts = {} THEN 0
                ELSE CHOOSE n \in {counts[d] : d \in DOMAIN counts} :
                         \A d \in DOMAIN counts : counts[d] <= n
    IN  [d \in DOMAIN counts \cup {dest_tech} |->
            IF d = dest_tech THEN last + 1 ELSE counts[d]]

\* lines 389-392
count_combiner(counts, dest_tech) ==
    IF dest_tech \in DOMAIN counts
    THEN [counts EXCEPT ![dest_tech] = @ + 1]
    ELSE [d \in DOMAIN counts \cup {dest_tech} |->
             IF d = dest_tech THEN 1 ELSE counts[d]]

\* A faulty variant of transport_connections: the source is connected to
\* the destination, past the transport component.
transport_connections_Mut(source_tech, dest_tech, transport_item, name, counts) ==
    <<Connection("plant", <<source_tech, ".", transport_item, "_out">>,
                 <<dest_tech, ".", transport_item, "_in">>),
      Connection("plant", name \o <<".", transport_item, "_out">>,
                 name \o <<".", transport_item, "_in">>)>>

\* lines 372-412: into the transport component and out of it; the storage
\* branches connect as the others do
transport_connections(source_tech, dest_tech, transport_item, name, counts) ==
    <<Connection("plant", <<source_tech, ".", transport_item, "_out">>,
                 name \o <<".", transport_item, "_in">>),
      IF Contains("combiner", dest_tech)
      THEN Connection("plant", name \o <<".", transport_item, "_out">>,
                      <<dest_tech, ".electricity_in", IntStr(counts[dest_tech])>>)
      ELSE Connection("plant", name \o <<".", transport_item, "_out">>,
                      <<dest_tech, ".", transport_item, "_in">>)>>

\* A faulty variant of IsDirectConnection: three elements or more.
IsDirectConnection_Mut(connection) == Len(connection) >= 3
\* line 414: the entry is a direct connection
IsDirectConnection(connection) == Len(connection) = 3

\* lines 360-424: one iteration of the loop over technology_interconnections
ConnectStep ==
    /\ pc = "connect_technologies"
    /\ cursor <= Len(plant_config.technology_interconnections)
    /\ LET connection == plant_config.technology_interconnections[cursor]
       IN  IF Len(connection) = 4
           THEN LET source_tech == connection[1]
                    dest_tech == connection[2]
                    transport_item == connection[3]
                    transport_type == connection[4]
                    name == connection_name(source_tech, dest_tech, transport_type)
                    counts == count_combiner(combiner_counts, dest_tech)
                IN  IF transport_type \notin DOMAIN supported_models
                    THEN /\ raised' = Exception("KeyError", transport_type,
                                                "connect_technologies")
                         /\ pc' = "raised"
                         /\ UNCHANGED <<subsystems, connections, combiner_counts, cursor>>
                    ELSE /\ subsystems' = Append(subsystems,
                                Subsystem(<<"plant">>, name, supported_models[transport_type]))
                         /\ connections' = connections \o
                                transport_connections(source_tech, dest_tech,
                                                      transport_item, name, counts)
                         /\ combiner_counts' = IF Contains("combiner", dest_tech)
                                               THEN counts ELSE combiner_counts
                         /\ cursor' = cursor + 1
                         /\ UNCHANGED <<raised, pc>>
           ELSE IF IsDirectConnection(connection)
           THEN /\ connections' = Append(connections,
                        Connection("plant",
                                   <<connection[1], ".", connection[3]>>,
                                   <<connection[2], ".", connection[3]>>))
                /\ cursor' = cursor + 1
                /\ UNCHANGED <<subsystems, combiner_counts, raised, pc>>
           ELSE /\ raised' = Exception("ValueError", "invalid_connection",
                                       "connect_technologies")
                /\ pc' = "raised"
                /\ UNCHANGED <<subsystems, connections, combiner_counts, cursor>>
    /\ UNCHANGED <<component_vars, config_vars, supported_models, tech_names, model_lists,
                   financial_groups, plant, prob>>

\* The loop of line 359 is exhausted: line 426.
ConnectLoopExit ==
    /\ pc = "connect_technologies"
    /\ cursor > Len(plant_config.technology_interconnections)
    /\ pc' = "connect_resources"
    /\ cursor' = 1
    /\ UNCHANGED <<component_vars, config_vars, supported_models, raised, graph_vars>>

\* lines 428-436: one iteration of the loop over resource_to_tech_connections
ConnectResourceStep ==
    /\ pc = "connect_resources"
    /\ cursor <= Len(plant_config.resource_to_tech_connections)
    /\ LET connection == plant_config.resource_to_tech_connections[cursor]
       IN  IF Len(connection) # 3
           THEN /\ raised' = Exception("ValueError", "invalid_resource_to_tech_connection",
                                       "connect_technologies")
                /\ pc' = "raised"
                /\ UNCHANGED <<connections, cursor>>
           ELSE /\ connections' = Append(connections,
                        Connection("model",
                                   <<connection[1], ".", connection[3]>>,
                                   <<connection[2], ".", connection[3]>>))
                /\ cursor' = cursor + 1
                /\ UNCHANGED <<raised, pc>>
    /\ UNCHANGED <<component_vars, config_vars, supported_models, subsystems, tech_names, model_lists,
                   financial_groups, combiner_counts, plant, prob>>

ConnectResourceLoopExit ==
    /\ pc = "connect_resources"
    /\ cursor > Len(plant_config.resource_to_tech_connections)
    /\ pc' = "connect_financials"
    /\ cursor' = 1
    /\ UNCHANGED <<component_vars, config_vars, supported_models, raised, graph_vars>>

RECURSIVE Flatten(_)
Flatten(seqs) == IF seqs = <<>> THEN <<>> ELSE Head(seqs) \o Flatten(Tail(seqs))

\* A faulty variant of SkippedInConnect: geoh2 is forgotten.
SkippedInConnect_Mut(techs) ==
    \E c \in {"steel", "methanol"} : InGroup(c, techs)

\* line 444: the group gets no financial connection
SkippedInConnect(techs) ==
    \E c \in {"steel", "methanol", "geoh2"} : InGroup(c, techs)

\* lines 450-463: the electricity of every producing technology of the plant
electricity_connections(group_id, names) ==
    LET producers == SelectSeq(names, IsElectricityProducer)
        fg == financials_group_name(group_id)
    IN  [i \in 1 .. Len(producers) |->
            Connection("plant",
                       <<producers[i], ".electricity_out">>,
                       fg \o <<".electricity_sum.electricity_", producers[i]>>)]
        \o (IF producers # <<>>
            THEN <<Connection("plant",
                              fg \o <<".electricity_sum.total_electricity_produced">>,
                              fg \o <<".total_electricity_produced">>)>>
            ELSE <<>>)

\* A faulty variant of group_members: every technology of the plant.
group_members_Mut(group, names) == names

\* line 465: tech_configs.keys()
group_members(group, names) == group.techs

\* lines 466-493, for one technology of the group
technology_financial_connections(group_id, tech_name) ==
    LET fg == financials_group_name(group_id)
    IN  <<Connection("plant", <<tech_name, ".CapEx">>, fg \o <<".capex_", tech_name>>),
          Connection("plant", <<tech_name, ".OpEx">>, fg \o <<".opex_", tech_name>>)>>
        \o (IF Contains("electrolyzer", tech_name)
            THEN <<Connection("plant", <<tech_name, ".total_hydrogen_produced">>,
                              fg \o <<".total_hydrogen_produced">>),
                   Connection("plant", <<tech_name, ".time_until_replacement">>,
                              fg \o <<".time_until_replacement">>)>>
            ELSE <<>>)
        \o (IF Contains("ammonia", tech_name)
            THEN <<Connection("plant", <<tech_name, ".total_ammonia_produced">>,
                              fg \o <<".total_ammonia_produced">>)>>
            ELSE <<>>)
        \o (IF Contains("doc", tech_name)
            THEN <<Connection("plant", <<tech_name, ".co2_capture_mtpy">>,
                              fg \o <<".co2_capture_kgpy">>)>>
            ELSE <<>>)

\* lines 442-493, for one group
group_financial_connections(group, names) ==
    IF SkippedInConnect(group.techs) THEN <<>>
    ELSE electricity_connections(group.id, names)
         \o Flatten([i \in 1 .. Len(group_members(group, names)) |->
                        technology_financial_connections(
                            group.id, group_members(group, names)[i])])

\* A faulty variant of ConnectsFinancials: the groups are always connected.
ConnectsFinancials_Mut(config) == TRUE

\* line 440
ConnectsFinancials(config) == config.finance_parameters

\* lines 440-493
ConnectFinancials ==
    /\ pc = "connect_financials"
    /\ IF ~ConnectsFinancials(plant_config)
       THEN UNCHANGED <<connections, raised>> /\ pc' = "connect_solvers"
       ELSE IF financial_groups = Unset
       THEN /\ raised' = Exception("AttributeError", "financial_groups",
                                   "connect_technologies")
            /\ pc' = "raised"
            /\ UNCHANGED connections
       ELSE /\ connections' = connections \o
                   Flatten([i \in 1 .. Len(financial_groups) |->
                               group_financial_connections(financial_groups[i], tech_names)])
            /\ pc' = "connect_solvers"
            /\ UNCHANGED raised
    /\ UNCHANGED <<component_vars, config_vars, supported_models, cursor, subsystems, tech_names,
                   model_lists, financial_groups, combiner_counts, plant, prob>>

\* A faulty variant of FeedsLCOHToAmmonia: any destination will do.
FeedsLCOHToAmmonia_Mut(connection) == StartsWith(connection[1], "financials_group_")

\* line 500
FeedsLCOHToAmmonia(connection) ==
    StartsWith(connection[1], "financials_group_") /\ connection[2] = "ammonia"

\* lines 495-508; create_xdsm_from_config writes a diagram and changes nothing here
ConnectReturn ==
    /\ pc = "connect_solvers"
    /\ plant' =
          IF \E i \in 1 .. Len(plant_config.technology_interconnections) :
                 FeedsLCOHToAmmonia(plant_config.technology_interconnections[i])
          THEN [auto_order |-> TRUE, nonlinear_solver |-> "NonlinearBlockGS",
                linear_solver |-> "DirectSolver"]
          ELSE [plant EXCEPT !.auto_order = TRUE]
    /\ pc' = "create_driver_model"
    /\ UNCHANGED <<component_vars, config_vars, supported_models, cursor, raised, subsystems,
                   connections, tech_names, model_lists, financial_groups,
                   combiner_counts, prob>>

(***************************************************************************)
(* create_driver_model and run                                             *)
(***************************************************************************)
\* lines 514-519: __init__ returns the model
CreateDriverModel ==
    /\ pc = "create_driver_model"
    /\ prob' = IF driver_config.driver
               THEN [prob EXCEPT !.driver = "PoseOptimization"]
               ELSE prob
    /\ pc' = "constructed"
    /\ UNCHANGED <<component_vars, config_vars, supported_models, cursor, raised, subsystems,
                   connections, tech_names, model_lists, financial_groups,
                   combiner_counts, plant>>

\* lines 526-529: run() on the constructed model
RunAddRecorder ==
    /\ pc = "constructed"
    /\ prob' = IF driver_config.recorder
               THEN [prob EXCEPT !.recorder = TRUE]
               ELSE prob
    /\ pc' = "prob.setup"
    /\ UNCHANGED <<component_vars, config_vars, supported_models, cursor, raised, subsystems,
                   connections, tech_names, model_lists, financial_groups,
                   combiner_counts, plant>>

\* line 531
RunSetup ==
    /\ pc = "prob.setup"
    /\ prob' = [prob EXCEPT !.setup = @ + 1]
    /\ pc' = "prob.run_driver"
    /\ UNCHANGED <<component_vars, config_vars, supported_models, cursor, raised, subsystems,
                   connections, tech_names, model_lists, financial_groups,
                   combiner_counts, plant>>

\* line 533
RunDriver ==
    /\ pc = "prob.run_driver"
    /\ prob' = [prob EXCEPT !.run_driver = @ + 1]
    /\ pc' = "done"
    /\ UNCHANGED <<component_vars, config_vars, supported_models, cursor, raised, subsystems,
                   connections, tech_names, model_lists, financial_groups,
                   combiner_counts, plant>>

\* __init__ followed by run
Next ==
    \/ CollectStep
    \/ CollectReturn
    \/ CreateSiteModel
    \/ CreatePlantModel
    \/ CreateTechnologyStep
    \/ CreateTechnologyReturn
    \/ CreateFinancialModel
    \/ ConnectStep
    \/ ConnectLoopExit
    \/ ConnectResourceStep
    \/ ConnectResourceLoopExit
    \/ ConnectFinancials
    \/ ConnectReturn
    \/ CreateDriverModel
    \/ RunAddRecorder
    \/ RunSetup
    \/ RunDriver

(***************************************************************************)
(* HOPPComponent and its file cache (converters/hopp)                      *)
(***************************************************************************)
\* hopp_mgmt.py line 130: the hours of a desired schedule
HoursPerYear == 8760

\* [x] * n
Repeat(x, n) == [value |-> x, times |-> n]

\* A dictionary key that may be absent holds <<>> or <<value>>.
Absent == <<>>
Given(x) == <<x>>

\* The part of the HOPP configuration that setup, compute and setup_hopp
\* read or write.
HoppConfig(desired_schedule, om_capacity, cache) ==
    [site |-> [desired_schedule |-> desired_schedule],
     technologies |-> [wind |-> [om_capacity |-> om_capacity],
                       battery |-> [system_capacity_kw |-> 100]],
     config |-> [cost_info |-> [wind_om_per_kw |-> 2],
                 simulation_options |-> [cache |-> cache]]]

RECURSIVE StrNum(_)
\* str of a natural number: its decimal digits
StrNum(n) == IF n < 10 THEN <<IntStr(n)>> ELSE StrNum(n \div 10) \o <<IntStr(n % 10)>>

StrBool(b) == IF b THEN "True" ELSE "False"

StrList(l) ==
    IF l.times = 0 THEN <<"[]">>
    ELSE <<"[">> \o StrNum(l.value) \o <<"]*">> \o StrNum(l.times)

\* hopp_wrapper.py line 166: str of the configuration dictionary
StrConfig(c) ==
    <<"{site: {">>
    \o (IF c.site.desired_schedule = Absent THEN <<>>
        ELSE <<"desired_schedule: ">> \o StrList(c.site.desired_schedule[1]))
    \o <<"}, technologies: {wind: {om_capacity: [">>
    \o StrNum(c.technologies.wind.om_capacity)
    \o <<"]}, battery: {system_capacity_kw: ">>
    \o StrNum(c.technologies.battery.system_capacity_kw)
    \o <<"}}, config: {cost_info: {wind_om_per_kw: ">>
    \o StrNum(c.config.cost_info.wind_om_per_kw)
    \o <<"}, simulation_options: {">>
    \o (IF c.config.simulation_options.cache = Absent THEN <<>>
        ELSE <<"cache: ", StrBool(c.config.simulation_options.cache[1])>>)
    \o <<"}}}">>

StrRatings(ratings) ==
    <<"wind_turbine_rating_kw=">> \o StrNum(ratings.wind_turbine_rating_kw)
    \o <<"pv_rating_kw=">> \o StrNum(ratings.pv_capacity_kw)
    \o <<"battery_rating_kw=">> \o StrNum(ratings.battery_capacity_kw)
    \o <<"battery_rating_kwh=">> \o StrNum(ratings.battery_capacity_kwh)

\* A faulty variant of config_hash: the inputs enter the key.
config_hash_Mut(options, inputs) ==
    <<"md5(">> \o StrConfig(options.config) \o StrNum(options.plant_life)
    \o StrRatings(inputs) \o <<")">>
\* lines 165-168: md5 of the two strings joined, taken to be free of collisions
config_hash(options, inputs) ==
    <<"md5(">> \o StrConfig(options.config) \o StrNum(options.plant_life) \o <<")">>

\* line 174
cache_file(hash) == <<"cache/">> \o hash \o <<".pkl">>

\* A faulty variant of CacheOption: the cache entry is not looked at.
CacheOption_Mut(hopp_config) == TRUE

\* lines 107-110
CacheOption(hopp_config) ==
    IF hopp_config.config.simulation_options.cache # Absent
    THEN hopp_config.config.simulation_options.cache[1]
    ELSE TRUE

\* lines 154-161
keys_of_interest ==
    <<"percent_load_missed", "curtailment_percent",
      "combined_hybrid_power_production_hopp", "annual_energies", "capex", "opex">>

KeysOfInterest == {keys_of_interest[i] : i \in 1 .. Len(keys_of_interest)}

\* hopp_mgmt.py lines 220-373: fin_model values that differ from cost_info
\* are overwritten in the dictionary passed in (the configurations here
\* carry the wind om_capacity entry only)
overwrite_fin_values(hopp_config) ==
    IF hopp_config.technologies.wind.om_capacity # hopp_config.config.cost_info.wind_om_per_kw
    THEN [hopp_config EXCEPT !.technologies.wind.om_capacity =
                                 hopp_config.config.cost_info.wind_om_per_kw]
    ELSE hopp_config

\* hopp_mgmt.py lines 122-133: what setup_hopp leaves in the dictionary it
\* was passed; the copy is taken only afterwards (lines 138-147)
ConfigAfterSetup(hopp_config, electrolyzer_rating) ==
    LET overwritten == overwrite_fin_values(hopp_config)
        scheduled ==
            IF /\ "battery" \in DOMAIN overwritten.technologies
               /\ \/ overwritten.site.desired_schedule = Absent
                  \/ overwritten.site.desired_schedule[1].times = 0
            THEN [overwritten EXCEPT
                     !.site.desired_schedule = Given(Repeat(10, HoursPerYear))]
            ELSE overwritten
    IN  IF electrolyzer_rating # Absent
        THEN [scheduled EXCEPT
                 !.site.desired_schedule = Given(Repeat(electrolyzer_rating[1], HoursPerYear))]
        ELSE scheduled

\* hopp_mgmt.py lines 114-162: the HoppInterface made of the configuration
\* and the ratings
setup_hopp(hopp_config, ratings, electrolyzer_rating) ==
    [hopp_config |-> ConfigAfterSetup(hopp_config, electrolyzer_rating),
     ratings |-> ratings]

\* hi.simulate(project_life): the simulation a result comes from
Simulation(hi, project_lifetime) ==
    <<"simulate(">> \o StrConfig(hi.hopp_config) \o StrRatings(hi.ratings)
    \o StrNum(project_lifetime) \o <<")">>

Value(name, from) == [of |-> name, from |-> from]

\* A result dictionary with the keys `keys`, of the simulation `from`.
Results(keys, from) ==
    [k \in keys |->
        IF k = "annual_energies"
        THEN [hybrid |-> Value("annual_energies.hybrid", from)]
        ELSE Value(k, from)]

\* hopp_mgmt.py lines 196-209: the keys of hopp_results
hopp_results_keys ==
    {"hopp_interface", "hybrid_plant", "combined_hybrid_power_production_hopp",
     "combined_hybrid_curtailment_hopp", "energy_shortfall_hopp", "annual_energies",
     "hybrid_npv", "npvs", "lcoe", "lcoe_nom", "capex", "opex"}

\* hopp_mgmt.py lines 166-217
run_hopp(hi, project_lifetime) ==
    Results(hopp_results_keys, Simulation(hi, project_lifetime))

\* line 201: the keys of interest that hopp_results does not have
MissingKeys(hopp_results) ==
    SelectSeq(keys_of_interest, LAMBDA k : k \notin DOMAIN hopp_results)

\* line 201
SubsetOfResults(hopp_results) == [k \in KeysOfInterest |-> hopp_results[k]]

\* A faulty variant of Open: every mode truncates.
Open_Mut(files, path, mode) ==
    [f \in DOMAIN files \cup {path} |-> IF f = path THEN <<>> ELSE files[f]]
\* lines 179 and 205: Path.open; "wb" creates or truncates the file, "rb"
\* leaves it as it is
Open(files, path, mode) ==
    IF mode = "wb"
    THEN [f \in DOMAIN files \cup {path} |-> IF f = path THEN <<>> ELSE files[f]]
    ELSE files

\* line 206: dill.dump
Dump(files, path, obj) == [files EXCEPT ![path] = Append(@, obj)]

\* line 181: dill.load
Load(files, path) == Head(files[path])

\* A faulty variant of IsCacheHit: the cache file is never found.
IsCacheHit_Mut(cache, files, path) == FALSE
\* line 177
IsCacheHit(cache, files, path) == cache /\ path \in DOMAIN files

\* lines 209-214
OutputsFrom(subset_of_hopp_results) ==
    [percent_load_missed |-> subset_of_hopp_results.percent_load_missed,
     curtailment_percent |-> subset_of_hopp_results.curtailment_percent,
     aep |-> subset_of_hopp_results.annual_energies.hybrid,
     electricity_out |-> subset_of_hopp_results.combined_hybrid_power_production_hopp,
     CapEx |-> subset_of_hopp_results.capex,
     OpEx |-> subset_of_hopp_results.opex]

\* lines 143-150: the outputs as setup declares them
DeclaredOutputs ==
    [percent_load_missed |-> Value("percent_load_missed", <<"val=0.0">>),
     curtailment_percent |-> Value("curtailment_percent", <<"val=0.0">>),
     aep |-> Value("aep", <<"val=0.0">>),
     electricity_out |-> Value("electricity_out", <<"val=np.zeros(n_timesteps)">>),
     CapEx |-> Value("CapEx", <<"val=0.0">>),
     OpEx |-> Value("OpEx", <<"val=0.0">>)]

NoFiles == [f \in {} |-> <<>>]

\* The configurations, plant lives, ratings and inputs explored.
MaxComputes == 2

GivenSchedule == Given(Repeat(10, HoursPerYear))

HoppConfigs ==
    { HoppConfig(Absent, 2, Absent),
      HoppConfig(GivenSchedule, 2, Absent),
      HoppConfig(GivenSchedule, 1, Absent),
      HoppConfig(Absent, 2, Given(TRUE)),
      HoppConfig(Absent, 2, Given(FALSE)),
      HoppConfig(GivenSchedule, 2, Given(FALSE)) }

PlantLives == {25, 30}

ElectrolyzerRatings == {Absent, Given(5)}

HoppComponents ==
    [config : HoppConfigs, plant_life : PlantLives,
     electrolyzer_rating : ElectrolyzerRatings]

InputChoices ==
    [wind_turbine_rating_kw : {100, 200}, pv_capacity_kw : {100},
     battery_capacity_kw : {100}, battery_capacity_kwh : {100}]

\* lines 104-150: a component is set up with its options
HoppSetUp(options) ==
    /\ hopp_options = options
    /\ hopp_cache = CacheOption(options.config)
    /\ hopp_outputs = DeclaredOutputs
    /\ hopp_raised = NoException

\* A cache file an earlier run left for a configuration and a plant life:
\* the six keys of interest, of the simulation that run made.
EarlierRatings ==
    [wind_turbine_rating_kw |-> 300, pv_capacity_kw |-> 100,
     battery_capacity_kw |-> 100, battery_capacity_kwh |-> 100]

EarlierFile(options) ==
    LET hi == setup_hopp(options.config, EarlierRatings, options.electrolyzer_rating)
    IN  <<Results(KeysOfInterest, Simulation(hi, options.plant_life))>>

\* What cache/ holds when the first component is set up: nothing, the file
\* of the component's own key, or the file of the key its configuration has
\* once setup_hopp has written to it.
EarlierFiles(options) ==
    {NoFiles}
    \cup { [f \in {cache_file(config_hash(o, EarlierRatings))} |-> EarlierFile(o)] :
             o \in {options,
                    [options EXCEPT !.config =
                        ConfigAfterSetup(options.config, options.electrolyzer_rating)]} }

\* A further component is set up (lines 104-150), in the same working
\* directory, once the present one has computed.
HoppSetup ==
    /\ hopp_raised # NoException \/ hopp_outputs # DeclaredOutputs
    /\ Len(computes) < MaxComputes
    /\ \E options \in HoppComponents :
          /\ hopp_options' = options
          /\ hopp_cache' = CacheOption(options.config)
    /\ hopp_outputs' = DeclaredOutputs
    /\ hopp_raised' = NoException
    /\ UNCHANGED <<cache_dir, cache_files, hopp_calls, computes,
                   controller_vars, synloop_vars, model_vars>>

\* lines 152-214
HoppCompute ==
    /\ Len(computes) < MaxComputes
    /\ \E inputs \in InputChoices :
          LET path == cache_file(config_hash(hopp_options, inputs))
              hi == setup_hopp(hopp_options.config, inputs,
                               hopp_options.electrolyzer_rating)
              hopp_results == run_hopp(hi, hopp_options.plant_life)
              called == [setup_hopp |-> hopp_calls.setup_hopp + 1,
                         run_hopp |-> hopp_calls.run_hopp + 1]
          IN  /\ cache_dir' = (cache_dir \/ hopp_cache)
              /\ computes' = Append(computes,
                     [config |-> hopp_options.config,
                      plant_life |-> hopp_options.plant_life,
                      electrolyzer_rating |-> hopp_options.electrolyzer_rating,
                      inputs |-> inputs,
                      cache_file |-> IF hopp_cache THEN Given(path) ELSE Absent])
              /\ IF IsCacheHit(hopp_cache, cache_files, path)
                 THEN /\ cache_files' = Open(cache_files, path, "rb")
                      /\ hopp_outputs' = OutputsFrom(Load(cache_files, path))
                      /\ hopp_raised' = NoException
                      /\ UNCHANGED <<hopp_options, hopp_calls>>
                 ELSE /\ hopp_options' = [hopp_options EXCEPT !.config = hi.hopp_config]
                      /\ hopp_calls' = called
                      /\ IF MissingKeys(hopp_results) # <<>>
                         THEN /\ hopp_raised' = Exception("KeyError",
                                                          MissingKeys(hopp_results)[1],
                                                          "compute")
                              /\ UNCHANGED <<cache_files, hopp_outputs>>
                         ELSE /\ cache_files' =
                                    IF hopp_cache
                                    THEN Dump(Open(cache_files, path, "wb"), path,
                                              SubsetOfResults(hopp_results))
                                    ELSE cache_files
                              /\ hopp_outputs' = OutputsFrom(SubsetOfResults(hopp_results))
                              /\ hopp_raised' = NoException
    /\ UNCHANGED <<hopp_cache, controller_vars, synloop_vars, model_vars>>

(***************************************************************************)
(* PassThroughOpenLoopController (controllers)                             *)
(***************************************************************************)
MaxSize == 3

ResourceValues == {0, 1, 2}

\* openloop_controllers.py is the module of the controllers in use,
\* openloop_controller.py the earlier module that the repository still holds.
ControllerModules == {"openloop_controllers", "openloop_controller"}

arange(size) == [i \in 1 .. size |-> i - 1]
ones(size) == [i \in 1 .. size |-> 1]

\* The arguments of declare_partials.
Declaration(rows, cols, val) == [rows |-> rows, cols |-> cols, val |-> val]

\* openloop_controllers.py lines 107-131, openloop_controller.py lines 53-66
setup_partials(module, size) ==
    IF module = "openloop_controllers"
    THEN Declaration(Given(arange(size)), Given(arange(size)), ones(size))
    ELSE Declaration(Absent, Absent, 1)

\* The Jacobian OpenMDAO holds for a declaration: without rows and cols it
\* is dense and val fills it, with them val[k] is the entry (rows[k], cols[k])
\* and every other entry is zero.
Jacobian(declaration, size) ==
    [i \in 1 .. size |-> [j \in 1 .. size |->
        IF declaration.rows = Absent
        THEN declaration.val
        ELSE LET rows == declaration.rows[1]
                 cols == declaration.cols[1]
                 at == {k \in 1 .. Len(rows) : rows[k] = i - 1 /\ cols[k] = j - 1}
             IN  IF at = {} THEN 0 ELSE declaration.val[CHOOSE k \in at : TRUE]]]

\* openloop_controllers.py line 105, openloop_controller.py line 51
compute(inputs) == inputs

\* add_input and add_output: val=0.0 in openloop_controller.py (lines 17 and
\* 27), OpenMDAO's default 1.0 in openloop_controllers.py; the output copies
\* the shape of the input
DeclaredArray(module, size) ==
    [i \in 1 .. size |-> IF module = "openloop_controllers" THEN 1 ELSE 0]

ControllerSetUp(module, size) ==
    /\ controller = module
    /\ resource_in = DeclaredArray(module, size)
    /\ resource_out = DeclaredArray(module, size)
    /\ partials = <<>>

ControllerSetupPartials ==
    /\ partials = <<>>
    /\ partials' = <<setup_partials(controller, Len(resource_in))>>
    /\ UNCHANGED <<controller, resource_in, resource_out, hopp_vars, synloop_vars, model_vars>>

\* compute, called with an input array of the connected shape
ControllerCompute ==
    /\ \E inputs \in [1 .. Len(resource_in) -> ResourceValues] :
          /\ resource_in' = inputs
          /\ resource_out' = compute(inputs)
    /\ UNCHANGED <<controller, partials, hopp_vars, synloop_vars, model_vars>>

(***************************************************************************)
(* AmmoniaSynLoopPerformanceModel (converters/ammonia/ammonia_synloop.py)  *)
(* A float is a fraction in lowest terms with a positive denominator.      *)
(***************************************************************************)
Abs(n) == IF n < 0 THEN -n ELSE n

RECURSIVE GCD(_, _)
GCD(a, b) == IF b = 0 THEN a ELSE GCD(b, a % b)

Float(num, den) ==
    LET g == GCD(Abs(num), den)
    IN  [num |-> num \div g, den |-> den \div g]

Zero == Float(0, 1)

Less(a, b) == a.num * b.den < b.num * a.den

\* a / b, for b # 0
Divide(a, b) ==
    IF b.num < 0 THEN Float(-(a.num * b.den), -(a.den * b.num))
                 ELSE Float(a.num * b.den, a.den * b.num)

Multiply(a, b) == Float(a.num * b.num, a.den * b.den)

Subtract(a, b) == Float(a.num * b.den - b.num * a.den, a.den * b.den)

Add(a, b) == Float(a.num * b.den + b.num * a.den, a.den * b.den)

\* np.minimum of two numbers
minimum(a, b) == IF Less(b, a) THEN b ELSE a

\* A faulty variant of minimum_reduce: the electricity is never limiting.
minimum_reduce_Mut(a, b, c) == minimum(a, b)

\* np.minimum.reduce([a, b, c]) at one timestep
minimum_reduce(a, b, c) == minimum(minimum(a, b), c)

\* array.sum()
RECURSIVE sum(_)
sum(array) == IF array = <<>> THEN Zero ELSE Add(array[1], sum(Tail(array)))

AmmoniaSynLoopPerformanceConfig(energy_demand, nitrogen_conversion_rate, hydrogen_conversion_rate) ==
    [energy_demand |-> energy_demand,
     nitrogen_conversion_rate |-> nitrogen_conversion_rate,
     hydrogen_conversion_rate |-> hydrogen_conversion_rate]

SynLoopInputs(hydrogen_in, nitrogen_in, electricity_in) ==
    [hydrogen_in |-> hydrogen_in, nitrogen_in |-> nitrogen_in,
     electricity_in |-> electricity_in]

\* lines 113-118: the ammonia each input allows, and the least of the three
nh3_prod(config, inputs) ==
    [t \in DOMAIN inputs.hydrogen_in |->
        minimum_reduce(
            Divide(inputs.hydrogen_in[t], config.hydrogen_conversion_rate),
            Divide(inputs.nitrogen_in[t], config.nitrogen_conversion_rate),
            Divide(inputs.electricity_in[t], config.energy_demand))]

\* A faulty variant of unused: the input's rate is left out.
unused_Mut(input, prod, rate) ==
    [t \in DOMAIN input |-> Subtract(input[t], prod[t])]

\* lines 121-128: an input less what the produced ammonia used of it
unused(input, prod, rate) ==
    [t \in DOMAIN input |-> Subtract(input[t], Multiply(prod[t], rate))]

\* compute (lines 101-129)
synloop_compute(config, inputs) ==
    LET prod == nh3_prod(config, inputs)
    IN  [ammonia_out |-> prod,
         hydrogen_out |-> unused(inputs.hydrogen_in, prod,
                                 config.hydrogen_conversion_rate),
         nitrogen_out |-> unused(inputs.nitrogen_in, prod,
                                 config.nitrogen_conversion_rate),
         heat_out |-> unused(inputs.electricity_in, prod, config.energy_demand),
         total_ammonia_produced |-> sum(prod)]

zeros(size) == [t \in 1 .. size |-> Zero]

\* setup (lines 72-99) declares every output as 0.0 in the connected shape;
\* the inputs are what the connected sources or prob.set_val have put there.
SynLoopSetUp(config, inputs) ==
    /\ synloop_config = config
    /\ synloop_inputs = inputs
    /\ synloop_outputs =
          LET size == Len(inputs.hydrogen_in)
          IN  [ammonia_out |-> zeros(size), hydrogen_out |-> zeros(size),
               nitrogen_out |-> zeros(size), heat_out |-> zeros(size),
               total_ammonia_produced |-> Zero]
    /\ synloop_runs = 0

MaxTimesteps == 2

\* The conversion rates of the test (0.18 and 0.82), and rates above one.
ConversionRates == [hydrogen |-> {Float(18, 100), Float(2, 1)},
                    nitrogen |-> {Float(82, 100), Float(3, 1)},
                    energy |-> {Float(3, 5), Float(3, 2)}]

SynLoopConfigs ==
    {AmmoniaSynLoopPerformanceConfig(e, n, h) :
        e \in ConversionRates.energy, n \in ConversionRates.nitrogen,
        h \in ConversionRates.hydrogen}

MaxRuns == 1

FeedValues == [hydrogen |-> {Zero, Float(9, 5), Float(3, 1)},
               nitrogen |-> {Float(-1, 1), Zero, Float(9, 5)},
               electricity |-> {Zero, Float(9, 5)}]

Arrays(values, size) == [1 .. size -> values]

SynLoopInputChoices ==
    UNION {{SynLoopInputs(hydrogen_in, nitrogen_in, electricity_in) :
               hydrogen_in \in Arrays(FeedValues.hydrogen, size),
               nitrogen_in \in Arrays(FeedValues.nitrogen, size),
               electricity_in \in Arrays(FeedValues.electricity, size)} :
           size \in 1 .. MaxTimesteps}

\* run_model: compute runs on the inputs as they stand.
SynLoopCompute ==
    /\ synloop_runs < MaxRuns
    /\ synloop_runs' = synloop_runs + 1
    /\ synloop_outputs' = synloop_compute(synloop_config, synloop_inputs)
    /\ UNCHANGED <<synloop_config, synloop_inputs, hopp_vars, controller_vars, model_vars>>

(***************************************************************************)
(* The specifications of the components                                    *)
(***************************************************************************)
\* No H2IntegrateModel is under construction.
ModelIdle ==
    /\ technology_config = <<>>
    /\ plant_config = [resources |-> <<>>, technology_interconnections |-> <<>>,
                       resource_to_tech_connections |-> <<>>,
                       finance_parameters |-> FALSE]
    /\ driver_config = [recorder |-> FALSE, driver |-> FALSE]
    /\ Constructing

\* The components stand as set up, in an empty working directory.
ComponentsIdle ==
    /\ HoppSetUp([config |-> HoppConfig(Absent, 2, Absent), plant_life |-> 30,
                  electrolyzer_rating |-> Absent])
    /\ cache_dir = FALSE
    /\ cache_files = NoFiles
    /\ hopp_calls = [setup_hopp |-> 0, run_hopp |-> 0]
    /\ computes = <<>>
    /\ ControllerSetUp("openloop_controllers", 1)
    /\ SynLoopSetUp(AmmoniaSynLoopPerformanceConfig(Float(3, 5), Float(82, 100),
                                                Float(18, 100)),
                    SynLoopInputs(zeros(1), zeros(1), zeros(1)))

InitHopp ==
    /\ ModelIdle
    /\ ControllerSetUp("openloop_controllers", 1)
    /\ SynLoopSetUp(AmmoniaSynLoopPerformanceConfig(Float(3, 5), Float(82, 100),
                                                Float(18, 100)),
                    SynLoopInputs(zeros(1), zeros(1), zeros(1)))
    /\ \E options \in HoppComponents :
          /\ HoppSetUp(options)
          /\ cache_files \in EarlierFiles(options)
    /\ cache_dir \in BOOLEAN
    /\ cache_files # NoFiles => cache_dir
    /\ hopp_calls = [setup_hopp |-> 0, run_hopp |-> 0]
    /\ computes = <<>>

NextHopp == HoppSetup \/ HoppCompute

SpecHopp == InitHopp /\ [][NextHopp]_vars

InitController ==
    /\ ModelIdle
    /\ HoppSetUp([config |-> HoppConfig(Absent, 2, Absent), plant_life |-> 30,
                  electrolyzer_rating |-> Absent])
    /\ cache_dir = FALSE
    /\ cache_files = NoFiles
    /\ hopp_calls = [setup_hopp |-> 0, run_hopp |-> 0]
    /\ computes = <<>>
    /\ \E module \in ControllerModules, size \in 1 .. MaxSize :
          ControllerSetUp(module, size)
    /\ SynLoopSetUp(AmmoniaSynLoopPerformanceConfig(Float(3, 5), Float(82, 100),
                                                Float(18, 100)),
                    SynLoopInputs(zeros(1), zeros(1), zeros(1)))

NextController == ControllerSetupPartials \/ ControllerCompute

SpecController == InitController /\ [][NextController]_vars

InitSynLoop ==
    /\ ModelIdle
    /\ HoppSetUp([config |-> HoppConfig(Absent, 2, Absent), plant_life |-> 30,
                  electrolyzer_rating |-> Absent])
    /\ cache_dir = FALSE
    /\ cache_files = NoFiles
    /\ hopp_calls = [setup_hopp |-> 0, run_hopp |-> 0]
    /\ computes = <<>>
    /\ ControllerSetUp("openloop_controllers", 1)
    /\ \E config \in SynLoopConfigs, inputs \in SynLoopInputChoices :
          SynLoopSetUp(config, inputs)

NextSynLoop == SynLoopCompute

SpecSynLoop == InitSynLoop /\ [][NextSynLoop]_vars

(***************************************************************************)
(* Configurations of collect_custom_models                                 *)
(***************************************************************************)
MaxEntries == 2

TechNames == <<"electrolyzer", "ammonia">>

ModelNameChoices == {None, "basic_electrolyzer_cost", "my_model", "my_other_model"}
ClassNameChoices == {None, "", "MyModel"}
LocationChoices == {None, "missing.py", "my_model.py"}

EntryChoices ==
    { Entry(m, c, l, None) :
        m \in ModelNameChoices, c \in ClassNameChoices, l \in LocationChoices }

\* The technologies whose present entries are `entries`, placed in consecutive
\* slots (technology by technology, model type by model type) from `start`.
TechnologiesOf(start, entries) ==
    [i \in 1 .. Len(TechNames) |->
        LET at(t) == LET k == (i - 1) * Len(model_types) + t - start + 1
                     IN IF k \in 1 .. Len(entries) THEN entries[k] ELSE AbsentEntry
        IN Technology(TechNames[i], at(1), at(2), at(3), AbsentEntry)]

EmptyPlantConfig ==
    [resources |-> <<>>,
     technology_interconnections |-> <<>>,
     resource_to_tech_connections |-> <<>>,
     finance_parameters |-> FALSE]

EmptyDriverConfig == [recorder |-> FALSE, driver |-> FALSE]

InitCustom ==
    /\ \E n \in 0 .. MaxEntries :
          \E start \in 1 .. (Len(TechNames) * Len(model_types) - n + 1) :
             \E entries \in [1 .. n -> EntryChoices] :
                technology_config = TechnologiesOf(start, entries)
    /\ plant_config = EmptyPlantConfig
    /\ driver_config = EmptyDriverConfig
    /\ Constructing
    /\ ComponentsIdle

NextCustom == CollectStep \/ CollectReturn

SpecCustom == InitCustom /\ [][NextCustom]_vars

(***************************************************************************)
(* Configurations of the whole construction                                *)
(***************************************************************************)
MaxTechs == 2
MaxConnections == 1

Plain(model) == Entry(model, None, None, None)

\* Technologies as tech_config.yaml files give them: well formed, with a
\* built-in model redefined (as test_custom_model_name_clash does), with a
\* custom model, with a custom model that lacks its class, with a custom
\* model used by name only, without a performance model, and a feedstock.
TechChoices ==
    { Technology("hopp", Plain("hopp"), Plain("hopp"), AbsentEntry, AbsentEntry),
      Technology("electrolyzer", Plain("eco_pem_electrolyzer_performance"),
                 Plain("singlitico_electrolyzer_cost"), AbsentEntry, AbsentEntry),
      Technology("electrolyzer", Plain("eco_pem_electrolyzer_performance"),
                 Entry("basic_electrolyzer_cost", None, "dummy_path", None),
                 AbsentEntry, AbsentEntry),
      Technology("ammonia", Entry("my_model", "MyModel", "my_model.py", None),
                 AbsentEntry, AbsentEntry, AbsentEntry),
      Technology("ammonia", Entry("my_model", None, "my_model.py", None),
                 AbsentEntry, AbsentEntry, AbsentEntry),
      Technology("doc", Plain("my_model"), AbsentEntry, AbsentEntry, AbsentEntry),
      Technology("h2_storage", AbsentEntry, Plain("hydrogen_tank_cost"),
                 AbsentEntry, AbsentEntry),
      Technology("feedstocks", AbsentEntry, AbsentEntry, AbsentEntry, AbsentEntry) }

\* A YAML mapping holds each technology name once.
DistinctNames(techs) ==
    \A i, j \in 1 .. Len(techs) : techs[i].name = techs[j].name => i = j

InterconnectionChoices ==
    { <<"hopp", "electrolyzer", "electricity", "cable">>,
      <<"electrolyzer", "ammonia", "hydrogen_out">>,
      <<"hopp", "electrolyzer">>,
      <<"hopp", "electrolyzer", "electricity", "cable", "overhead">> }

ResourceConnectionChoices ==
    { <<"river_resource", "hopp", "discharge">>,
      <<"river_resource", "hopp">> }

SeqsUpTo(S, n) == UNION { [1 .. k -> S] : k \in 0 .. n }

Init ==
    /\ \E techs \in SeqsUpTo(TechChoices, MaxTechs) :
          /\ Len(techs) >= 1
          /\ DistinctNames(techs)
          /\ technology_config = techs
    /\ \E n \in 0 .. MaxConnections :
          \E ti \in SeqsUpTo(InterconnectionChoices, n),
             rc \in SeqsUpTo(ResourceConnectionChoices, n),
             fin \in BOOLEAN :
                /\ Len(ti) + Len(rc) <= n
                /\ plant_config = [resources |-> <<"river_resource">>,
                                   technology_interconnections |-> ti,
                                   resource_to_tech_connections |-> rc,
                                   finance_parameters |-> fin]
    /\ driver_config \in {[recorder |-> FALSE, driver |-> FALSE],
                          [recorder |-> TRUE, driver |-> TRUE]}
    /\ Constructing
    /\ ComponentsIdle

Spec == Init /\ [][Next]_vars

(***************************************************************************)
(* Configurations of connect_technologies                                  *)
(***************************************************************************)
MaxInterconnections == 2
MaxResourceConnections == 1

\* A plant whose technologies are well formed.
ConnectedTechnologies ==
    << Technology("hopp", Plain("hopp"), Plain("hopp"), AbsentEntry, AbsentEntry),
       Technology("combiner_1", Plain("combiner_performance"), AbsentEntry,
                  AbsentEntry, AbsentEntry),
       Technology("electrolyzer", Plain("eco_pem_electrolyzer_performance"),
                  Plain("singlitico_electrolyzer_cost"), AbsentEntry, AbsentEntry),
       Technology("ammonia", Plain("simple_ammonia_performance"),
                  Plain("simple_ammonia_cost"), AbsentEntry, AbsentEntry) >>

\* Entries of technology_interconnections: of length 4 (a transport
\* component), one of them with a transport type nothing registers, of
\* length 3 (a direct connection) and of lengths 2 and 5.
ConnectChoices ==
    { <<"hopp", "combiner_1", "electricity", "cable">>,
      <<"combiner_1", "electrolyzer", "electricity", "cable">>,
      <<"electrolyzer", "ammonia", "hydrogen", "pipe">>,
      <<"electrolyzer", "ammonia", "hydrogen", "truck">>,
      <<"financials_group_1", "ammonia", "LCOH">>,
      <<"hopp", "electrolyzer">>,
      <<"hopp", "electrolyzer", "electricity", "cable", "overhead">> }

ResourceChoices ==
    { <<"river_resource", "hopp", "discharge">>,
      <<"river_resource", "hopp">>,
      <<"river_resource", "hopp", "discharge", "m**3/s">> }

InitConnect ==
    /\ technology_config = ConnectedTechnologies
    /\ \E ti \in SeqsUpTo(ConnectChoices, MaxInterconnections),
          rc \in SeqsUpTo(ResourceChoices, MaxResourceConnections),
          fin \in BOOLEAN :
             plant_config = [resources |-> <<"river_resource">>,
                             technology_interconnections |-> ti,
                             resource_to_tech_connections |-> rc,
                             finance_parameters |-> fin]
    /\ driver_config = EmptyDriverConfig
    /\ Constructing
    /\ ComponentsIdle

SpecConnect == InitConnect /\ [][Next]_vars

(***************************************************************************)
(* Configurations of the financial groups                                  *)
(***************************************************************************)
MaxGroupedTechs == 2

GroupIds == {"1", "2"}

\* financial_model of a technology: absent, or naming a group; methanol
\* names its financial model, with or without a group.
FinancialEntries(name) ==
    IF name = "methanol"
    THEN {Entry("methanol_plant_financial", None, None, group) :
             group \in GroupIds \cup {None}}
    ELSE {AbsentEntry} \cup {Entry(None, None, None, group) : group \in GroupIds}

\* Well-formed technologies: an electricity producer, three with a
\* commodity, of which steel and methanol bring their own financials, geoh2
\* with a custom model, and a storage without a commodity.
GroupedTechChoices ==
    UNION {
      {Technology("hopp", Plain("hopp"), Plain("hopp"), fin, AbsentEntry) :
          fin \in FinancialEntries("hopp")},
      {Technology("electrolyzer", Plain("eco_pem_electrolyzer_performance"),
                  Plain("singlitico_electrolyzer_cost"), fin, AbsentEntry) :
          fin \in FinancialEntries("electrolyzer")},
      {Technology("steel", Plain("steel_performance"), Plain("steel_cost"),
                  fin, AbsentEntry) : fin \in FinancialEntries("steel")},
      {Technology("methanol", Plain("smr_methanol_plant_performance"),
                  Plain("smr_methanol_plant_cost"), fin, AbsentEntry) :
          fin \in FinancialEntries("methanol")},
      {Technology("geoh2", Entry("my_model", "MyModel", "my_model.py", None),
                  AbsentEntry, fin, AbsentEntry) : fin \in FinancialEntries("geoh2")},
      {Technology("h2_storage", Plain("h2_storage"), Plain("h2_storage"),
                  fin, AbsentEntry) : fin \in FinancialEntries("h2_storage")} }

InitFinance ==
    /\ \E techs \in SeqsUpTo(GroupedTechChoices, MaxGroupedTechs) :
          /\ Len(techs) >= 1
          /\ DistinctNames(techs)
          /\ technology_config = techs
    /\ \E fin \in BOOLEAN :
          plant_config = [resources |-> <<"river_resource">>,
                          technology_interconnections |->
                              << <<"hopp", "electrolyzer", "electricity", "cable">> >>,
                          resource_to_tech_connections |->
                              << <<"river_resource", "hopp", "discharge">> >>,
                          finance_parameters |-> fin]
    /\ driver_config = EmptyDriverConfig
    /\ Constructing
    /\ ComponentsIdle

SpecFinance == InitFinance /\ [][Next]_vars

(***************************************************************************)
(* Configurations of the transport components                              *)
(***************************************************************************)
MaxTransports == 3

\* A plant of two producers, two combiners, an electrolyzer and ammonia.
TransportedTechnologies ==
    << Technology("wind", Plain("wind_plant_performance"), Plain("wind_plant_cost"),
                  AbsentEntry, AbsentEntry),
       Technology("solar", Plain("pysam_solar_plant_performance"), AbsentEntry,
                  AbsentEntry, AbsentEntry),
       Technology("combiner_1", Plain("combiner_performance"), AbsentEntry,
                  AbsentEntry, AbsentEntry),
       Technology("combiner_2", Plain("combiner_performance"), AbsentEntry,
                  AbsentEntry, AbsentEntry),
       Technology("electrolyzer", Plain("eco_pem_electrolyzer_performance"),
                  Plain("singlitico_electrolyzer_cost"), AbsentEntry, AbsentEntry),
       Technology("ammonia", Plain("simple_ammonia_performance"),
                  Plain("simple_ammonia_cost"), AbsentEntry, AbsentEntry) >>

\* Entries of technology_interconnections, all of a valid length: into the
\* two combiners, out of one, two pipes that differ in the transported
\* item only, and direct connections from a financial group and from a
\* technology.
TransportChoices ==
    { <<"wind", "combiner_1", "electricity", "cable">>,
      <<"solar", "combiner_1", "electricity", "cable">>,
      <<"solar", "combiner_2", "electricity", "cable">>,
      <<"combiner_1", "electrolyzer", "electricity", "cable">>,
      <<"electrolyzer", "ammonia", "hydrogen", "pipe">>,
      <<"electrolyzer", "ammonia", "oxygen", "pipe">>,
      <<"financials_group_1", "ammonia", "LCOH">>,
      <<"financials_group_1", "electrolyzer", "LCOE">>,
      <<"electrolyzer", "ammonia", "total_hydrogen_produced">> }

InitTransport ==
    /\ technology_config = TransportedTechnologies
    /\ \E ti \in SeqsUpTo(TransportChoices, MaxTransports) :
          plant_config = [resources |-> <<"river_resource">>,
                          technology_interconnections |-> ti,
                          resource_to_tech_connections |->
                              << <<"river_resource", "wind", "discharge">> >>,
                          finance_parameters |-> TRUE]
    /\ driver_config = EmptyDriverConfig
    /\ Constructing
    /\ ComponentsIdle

SpecTransport == InitTransport /\ [][Next]_vars

(***************************************************************************)
(* Configurations of create_technology_models                              *)
(***************************************************************************)
MaxTechnologies == 2

\* Technologies with and without a performance model, combined models,
\* a storage that names a cost model only, a technology whose control
\* model nothing registers, and two feedstocks.
TechnologyChoices ==
    { Technology("electrolyzer", Plain("eco_pem_electrolyzer_performance"),
                 Plain("singlitico_electrolyzer_cost"), AbsentEntry, AbsentEntry),
      Technology("electrolyzer", AbsentEntry, Plain("singlitico_electrolyzer_cost"),
                 AbsentEntry, AbsentEntry),
      Technology("wind", Plain("wind_plant_performance"), Plain("wind_plant_cost"),
                 AbsentEntry, Plain("my_controller")),
      Technology("hopp", Plain("hopp"), Plain("hopp"), AbsentEntry, AbsentEntry),
      Technology("h2_storage", Plain("h2_storage"), Plain("h2_storage"),
                 AbsentEntry, AbsentEntry),
      Technology("h2_storage", AbsentEntry, Plain("h2_storage"), AbsentEntry, AbsentEntry),
      Technology("ng_feedstocks", AbsentEntry, AbsentEntry, AbsentEntry, AbsentEntry),
      Technology("feedstocks", AbsentEntry, Plain("steel_cost"), AbsentEntry, AbsentEntry) }

InitTechnology ==
    /\ \E techs \in SeqsUpTo(TechnologyChoices, MaxTechnologies) :
          /\ Len(techs) >= 1
          /\ DistinctNames(techs)
          /\ technology_config = techs
    /\ \E fin \in BOOLEAN :
          plant_config = [resources |-> <<"river_resource">>,
                          technology_interconnections |->
                              << <<"hopp", "electrolyzer", "electricity", "cable">> >>,
                          resource_to_tech_connections |->
                              << <<"river_resource", "hopp", "discharge">> >>,
                          finance_parameters |-> fin]
    /\ driver_config = EmptyDriverConfig
    /\ Constructing
    /\ ComponentsIdle

SpecTechnology == InitTechnology /\ [][Next]_vars

(***************************************************************************)
(* Configurations of __init__ and run as a whole                           *)
(***************************************************************************)
\* Plants of grouped technologies whose connections name technologies of
\* the plant, with and without a recorder and a driver.
InitStages ==
    /\ \E techs \in SeqsUpTo(GroupedTechChoices, MaxGroupedTechs) :
          /\ Len(techs) >= 1
          /\ DistinctNames(techs)
          /\ technology_config = techs
          /\ \E fin \in BOOLEAN :
                plant_config =
                    [resources |-> <<"river_resource">>,
                     technology_interconnections |->
                         << <<techs[1].name, techs[Len(techs)].name,
                              "electricity", "cable">> >>,
                     resource_to_tech_connections |->
                         << <<"river_resource", techs[1].name, "discharge">> >>,
                     finance_parameters |-> fin]
    /\ driver_config \in {EmptyDriverConfig, [recorder |-> TRUE, driver |-> TRUE]}
    /\ Constructing
    /\ ComponentsIdle

SpecStages == InitStages /\ [][Next]_vars

(***************************************************************************)
(* Claims about collect_custom_models                                      *)
(***************************************************************************)
\* collect_custom_models has ended: it returned or it raised.
CollectEnded == pc # "collect_custom_models"

\* The entry of slot k names a built-in model and gives a class name or a
\* location of its own.
IsBuiltinClash(k) ==
    LET e == SlotEntry(k)
    IN  /\ e.present
        /\ e.model \in BuiltinModelNames
        /\ (e.model_class_name # None \/ e.model_location # None)

HasBuiltinClash == \E k \in 1 .. NumSlots : IsBuiltinClash(k)

FirstBuiltinClash ==
    CHOOSE k \in 1 .. NumSlots :
        IsBuiltinClash(k) /\ \A j \in 1 .. (k - 1) : ~IsBuiltinClash(j)

NameClashError ==
    Exception("ValueError", "name_clash_with_builtin", "collect_custom_models")

BuiltinsUntouched ==
    \A n \in BuiltinModelNames :
        n \in DOMAIN supported_models /\ supported_models[n] = BuiltinClass(n)

\* C1 as stated: whenever some entry names a built-in model and also gives
\* model_class_name or model_location, construction raises the name-clash
\* ValueError.
C1_NameClashWheneverAnyEntryClashes ==
    (CollectEnded /\ HasBuiltinClash) => raised = NameClashError

\* C1 as amended: whenever some entry names a built-in model and also gives
\* model_class_name or model_location, construction raises inside
\* collect_custom_models, at that entry or at an earlier one; it is the
\* name-clash ValueError when no earlier entry raised first; the built-in
\* classes are left as they are and construction goes no further.
C1_NameClashUnlessEarlierEntryRaised ==
    (CollectEnded /\ HasBuiltinClash) =>
        /\ pc = "raised"
        /\ raised # NoException
        /\ raised.stage = "collect_custom_models"
        /\ cursor <= FirstBuiltinClash
        /\ (cursor = FirstBuiltinClash => raised = NameClashError)
        /\ BuiltinsUntouched

\* The case of test_custom_model_name_clash: a built-in cost model with a
\* model_location and no model_class_name, reached and refused.
C1_Witness ==
    /\ pc = "raised"
    /\ raised = NameClashError
    /\ IsBuiltinClash(cursor)
    /\ SlotEntry(cursor).model = "basic_electrolyzer_cost"
    /\ SlotEntry(cursor).model_class_name = None
    /\ SlotEntry(cursor).model_location # None

\* Every entry that carries a class name or a location names a model, and
\* that model is not a built-in one.
OnlyCustomDefinitions ==
    \A k \in 1 .. NumSlots :
        LET e == SlotEntry(k)
        IN  (e.present /\ (e.model_class_name # None \/ e.model_location # None))
                => (e.model # None /\ e.model \notin BuiltinModelNames)

\* C2: when every entry carrying model_class_name or model_location names a
\* model that is not built-in, no name-clash error is raised, also when the
\* same custom name is used by several entries.
C2_NoClashWithoutBuiltinName ==
    OnlyCustomDefinitions => raised # NameClashError

\* C4: for an entry whose model name is set and is not in
\* self.supported_models, the iteration raises ValueError when the class name
\* or the location is missing or empty, FileNotFoundError when the location
\* does not exist, and otherwise registers the loaded class under the model
\* name; no step ever removes or replaces a registered class.
C4_CustomEntryHandling ==
    [][ /\ \A n \in DOMAIN supported_models :
              n \in DOMAIN supported_models' /\ supported_models'[n] = supported_models[n]
        /\ (pc = "collect_custom_models" /\ cursor <= NumSlots) =>
             LET e == SlotEntry(cursor)
                 complete == ~Falsy(e.model_class_name) /\ ~Falsy(e.model_location)
             IN  (e.present /\ e.model # None /\ e.model \notin DOMAIN supported_models) =>
                   /\ ~complete =>
                        /\ pc' = "raised"
                        /\ raised' = Exception("ValueError",
                                               "must_specify_class_and_location",
                                               "collect_custom_models")
                        /\ supported_models' = supported_models
                   /\ (complete /\ e.model_location \notin ExistingPaths) =>
                        /\ pc' = "raised"
                        /\ raised' = Exception("FileNotFoundError",
                                               "location_does_not_exist",
                                               "collect_custom_models")
                        /\ supported_models' = supported_models
                   /\ (complete /\ e.model_location \in ExistingPaths) =>
                        /\ pc' = "collect_custom_models"
                        /\ raised' = NoException
                        /\ DOMAIN supported_models' = DOMAIN supported_models \cup {e.model}
                        /\ supported_models'[e.model] =
                               [location |-> e.model_location,
                                class_name |-> e.model_class_name]
      ]_vars

\* Two custom models were registered and collect_custom_models returned.
C4_Witness ==
    /\ pc = "create_site_model"
    /\ raised = NoException
    /\ {"my_model", "my_other_model"} \subseteq DOMAIN supported_models
    /\ supported_models["my_model"] = [location |-> "my_model.py", class_name |-> "MyModel"]

(***************************************************************************)
(* Claims about connect_technologies                                       *)
(***************************************************************************)
InvalidConnectionError ==
    Exception("ValueError", "invalid_connection", "connect_technologies")

InvalidResourceConnectionError ==
    Exception("ValueError", "invalid_resource_to_tech_connection", "connect_technologies")

AllInterconnectionsValid ==
    \A i \in 1 .. Len(plant_config.technology_interconnections) :
        Len(plant_config.technology_interconnections[i]) \in {3, 4}

AllResourceConnectionsValid ==
    \A i \in 1 .. Len(plant_config.resource_to_tech_connections) :
        Len(plant_config.resource_to_tech_connections[i]) = 3

\* C3: when the loop of connect_technologies comes to a
\* technology_interconnections entry whose length is neither 3 nor 4, or to a
\* resource_to_tech_connections entry whose length is not 3, it raises
\* ValueError and makes no connection and no subsystem for that entry; and
\* connect_technologies never gets past its loops with such an entry in the
\* configuration.
C3_InvalidLengthRaisesWithoutConnecting ==
    /\ [][ /\ (/\ pc = "connect_technologies"
               /\ cursor <= Len(plant_config.technology_interconnections)
               /\ Len(plant_config.technology_interconnections[cursor]) \notin {3, 4})
              => /\ raised' = InvalidConnectionError
                 /\ pc' = "raised"
                 /\ connections' = connections
                 /\ subsystems' = subsystems
           /\ (/\ pc = "connect_resources"
               /\ cursor <= Len(plant_config.resource_to_tech_connections)
               /\ Len(plant_config.resource_to_tech_connections[cursor]) # 3)
              => /\ raised' = InvalidResourceConnectionError
                 /\ pc' = "raised"
                 /\ connections' = connections
                 /\ subsystems' = subsystems
         ]_vars
    /\ [](pc \in {"connect_resources", "connect_financials", "connect_solvers",
                  "create_driver_model", "constructed", "prob.setup",
                  "prob.run_driver", "done"} => AllInterconnectionsValid)
    /\ [](pc \in {"connect_financials", "connect_solvers", "create_driver_model",
                  "constructed", "prob.setup", "prob.run_driver", "done"}
             => AllResourceConnectionsValid)

\* A first entry was connected through its cable, then an entry of length 5
\* was refused.
C3_Witness ==
    /\ pc = "raised"
    /\ raised = InvalidConnectionError
    /\ cursor = 2
    /\ Len(plant_config.technology_interconnections[2]) = 5
    /\ Len(connections) = 2

(***************************************************************************)
(* Claims about the order of construction                                  *)
(***************************************************************************)
\* A custom model lacks its class name or its location: the first entry
\* that names it, the one that has to define it, does not give both.  (An
\* entry that names a custom model which an earlier entry registered finds
\* it in self.supported_models and uses it by name.)
HasCustomLacking ==
    \E k \in 1 .. NumSlots :
        LET e == SlotEntry(k)
        IN  /\ e.present
            /\ e.model # None
            /\ e.model \notin BuiltinModelNames
            /\ (Falsy(e.model_class_name) \/ Falsy(e.model_location))
            /\ \A j \in 1 .. (k - 1) :
                   ~(SlotEntry(j).present /\ SlotEntry(j).model = e.model)

\* Some technology that is not a feedstock has no performance_model.
HasNoPerformanceModel ==
    \E i \in 1 .. Len(technology_config) :
        /\ ~IsFeedstock(technology_config[i].name)
        /\ ~technology_config[i].performance_model.present

HasConfigurationFault ==
    \/ HasBuiltinClash
    \/ HasCustomLacking
    \/ HasNoPerformanceModel
    \/ ~AllInterconnectionsValid

\* __init__ has passed connect_technologies.
PastConstruction ==
    pc \in {"create_driver_model", "constructed", "prob.setup", "prob.run_driver", "done"}

\* C5: with a built-in name clash, a custom model lacking class name or
\* location, a non-feedstock technology without performance_model or an
\* interconnection entry of invalid length in the configuration, __init__
\* raises before create_driver_model: construction never comes to
\* create_driver_model, no model is returned, and prob.setup() and
\* prob.run_driver() are never invoked.
C5_FaultyConfigurationNeverConstructs ==
    HasConfigurationFault =>
        /\ ~PastConstruction
        /\ prob.setup = 0
        /\ prob.run_driver = 0
        /\ (pc = "raised" => raised # NoException)

\* A plant whose only fault is its last: the technologies were all created,
\* then the interconnection of invalid length stopped __init__.
C5_Witness ==
    /\ HasConfigurationFault
    /\ ~HasBuiltinClash /\ ~HasCustomLacking /\ ~HasNoPerformanceModel
    /\ pc = "raised"
    /\ raised = InvalidConnectionError
    /\ Len(tech_names) = Len(technology_config)
    /\ prob.setup = 0

(***************************************************************************)
(* Claims about HOPPComponent.compute                                      *)
(***************************************************************************)
\* The step is a call of compute.
IsCompute == Len(computes') = Len(computes) + 1

\* cache/<key>.pkl for the key of the component as it stands: the md5 of the
\* text of the performance model's configuration followed by the text of
\* plant_life.
CurrentCacheFile ==
    <<"cache/", "md5(">> \o StrConfig(hopp_options.config)
    \o StrNum(hopp_options.plant_life) \o <<")", ".pkl">>

CacheFileExists == CurrentCacheFile \in DOMAIN cache_files

\* C6: with caching enabled, a compute that finds the cache file of the
\* current key calls neither setup_hopp nor run_hopp and sets the six
\* outputs from the blob stored in that file.
C6_HitReadsTheCache ==
    [][ (IsCompute /\ hopp_cache /\ CacheFileExists) =>
           LET blob == Head(cache_files[CurrentCacheFile])
           IN  /\ hopp_calls' = hopp_calls
               /\ hopp_raised' = NoException
               /\ hopp_outputs'.percent_load_missed = blob.percent_load_missed
               /\ hopp_outputs'.curtailment_percent = blob.curtailment_percent
               /\ hopp_outputs'.aep = blob.annual_energies.hybrid
               /\ hopp_outputs'.electricity_out = blob.combined_hybrid_power_production_hopp
               /\ hopp_outputs'.CapEx = blob.capex
               /\ hopp_outputs'.OpEx = blob.opex
      ]_vars

\* A compute has set the outputs, from a file an earlier run left, and no
\* simulation was ever set up or run.
C6_Witness ==
    /\ Len(computes) = 1
    /\ hopp_cache
    /\ CacheFileExists
    /\ hopp_outputs = OutputsFrom(Head(cache_files[CurrentCacheFile]))
    /\ hopp_calls = [setup_hopp |-> 0, run_hopp |-> 0]

\* C7: with caching enabled, compute runs the simulation exactly when the
\* cache file of the current key is absent; on such a miss it calls
\* setup_hopp and run_hopp once each and writes cache/<key>.pkl holding
\* exactly the six keys of interest, so that the file exists when compute
\* returns.
C7_MissSimulatesOnceAndWritesTheFile ==
    [][ (IsCompute /\ hopp_cache) =>
           /\ (hopp_calls' # hopp_calls) <=> ~CacheFileExists
           /\ ~CacheFileExists =>
                 /\ hopp_calls'.setup_hopp = hopp_calls.setup_hopp + 1
                 /\ hopp_calls'.run_hopp = hopp_calls.run_hopp + 1
                 /\ hopp_raised' = NoException
                 /\ CurrentCacheFile \in DOMAIN cache_files'
                 /\ Len(cache_files'[CurrentCacheFile]) = 1
                 /\ DOMAIN Head(cache_files'[CurrentCacheFile]) = KeysOfInterest
      ]_vars

\* C8: two compute calls with caching enabled whose configuration and
\* plant_life are equal use the same cache file, whatever their inputs and
\* whatever electrolyzer_rating.
C8_KeyOfConfigAndPlantLifeOnly ==
    \A i, j \in 1 .. Len(computes) :
        (/\ computes[i].cache_file # Absent
         /\ computes[j].cache_file # Absent
         /\ computes[i].config = computes[j].config
         /\ computes[i].plant_life = computes[j].plant_life)
            => computes[i].cache_file = computes[j].cache_file

\* Two computes of equal configuration and plant_life, with different
\* inputs and different electrolyzer_rating, used one cache file.
C8_Witness ==
    /\ Len(computes) = 2
    /\ computes[1].cache_file # Absent
    /\ computes[1].config = computes[2].config
    /\ computes[1].plant_life = computes[2].plant_life
    /\ computes[1].inputs # computes[2].inputs
    /\ computes[1].electrolyzer_rating # computes[2].electrolyzer_rating
    /\ computes[1].cache_file = computes[2].cache_file

\* C9: no step deletes a cache file or changes its content.
C9_CacheFilesAreKept ==
    [][ \A f \in DOMAIN cache_files :
            f \in DOMAIN cache_files' /\ cache_files'[f] = cache_files[f] ]_vars

\* With a file in cache/, one compute has missed it and simulated, and the
\* next has found it and read it.
C9_Witness ==
    /\ Len(computes) = 2
    /\ cache_files # NoFiles
    /\ hopp_calls.run_hopp = 1
    /\ hopp_cache
    /\ CacheFileExists
    /\ hopp_outputs = OutputsFrom(Head(cache_files[CurrentCacheFile]))

(***************************************************************************)
(* Claims about PassThroughOpenLoopController                              *)
(***************************************************************************)
Identity(size) == [i \in 1 .. size |-> [j \in 1 .. size |-> IF i = j THEN 1 ELSE 0]]

\* C10: the output equals the input element by element and has its shape,
\* and the declared derivative of the output with respect to the input is
\* the identity: 1 on the diagonal, 0 elsewhere.
C10_PassThroughWithIdentityDerivative ==
    /\ Len(resource_out) = Len(resource_in)
    /\ \A i \in 1 .. Len(resource_in) : resource_out[i] = resource_in[i]
    /\ partials # <<>> =>
          Jacobian(partials[1], Len(resource_in)) = Identity(Len(resource_in))


(***************************************************************************)
(* AmmoniaSynLoopPerformanceModel: the limiting input                      *)
(***************************************************************************)
Timesteps == DOMAIN synloop_outputs.ammonia_out

\* What each input allows at timestep t, by name of the input.
Allowed(t) ==
    [hydrogen |-> Divide(synloop_inputs.hydrogen_in[t],
                         synloop_config.hydrogen_conversion_rate),
     nitrogen |-> Divide(synloop_inputs.nitrogen_in[t],
                         synloop_config.nitrogen_conversion_rate),
     electricity |-> Divide(synloop_inputs.electricity_in[t],
                            synloop_config.energy_demand)]

FeedNames == {"hydrogen", "nitrogen", "electricity"}

\* The input that allows strictly less ammonia than the two others.
StrictlyLimiting(t, name) ==
    \A other \in FeedNames \ {name} : Less(Allowed(t)[name], Allowed(t)[other])

RECURSIVE TotalUpTo(_, _)
TotalUpTo(array, n) ==
    IF n = 0 THEN Zero ELSE Add(TotalUpTo(array, n - 1), array[n])

AmmoniaIsTheLeastAllowed ==
    /\ \A t \in Timesteps :
          /\ \E name \in FeedNames : synloop_outputs.ammonia_out[t] = Allowed(t)[name]
          /\ \A name \in FeedNames :
                ~Less(Allowed(t)[name], synloop_outputs.ammonia_out[t])
    /\ synloop_outputs.total_ammonia_produced
          = TotalUpTo(synloop_outputs.ammonia_out, Len(synloop_outputs.ammonia_out))

\* C11: once compute has run, at every timestep ammonia_out is the least of
\* hydrogen_in over hydrogen_conversion_rate, nitrogen_in over
\* nitrogen_conversion_rate and electricity_in over energy_demand (it is one
\* of the three and none of the three is less), and total_ammonia_produced
\* is the sum of ammonia_out over all timesteps.
C11_AmmoniaIsTheLeastAllowed == synloop_runs > 0 => AmmoniaIsTheLeastAllowed

\* compute has run on two timesteps, hydrogen limiting the first and
\* electricity the second, and ammonia was produced.
C11_Witness ==
    /\ synloop_runs > 0
    /\ Len(synloop_outputs.ammonia_out) >= 2
    /\ StrictlyLimiting(1, "hydrogen")
    /\ StrictlyLimiting(2, "electricity")
    /\ Less(Zero, synloop_outputs.ammonia_out[1])
    /\ Less(Zero, synloop_outputs.ammonia_out[2])
    /\ synloop_outputs.ammonia_out[1] = Allowed(1).hydrogen
    /\ synloop_outputs.ammonia_out[2] = Allowed(2).electricity
    /\ Less(synloop_outputs.ammonia_out[1], synloop_outputs.total_ammonia_produced)

NonNegative(x) == ~Less(x, Zero)

NonNegativeInputs(t) ==
    /\ NonNegative(synloop_inputs.hydrogen_in[t])
    /\ NonNegative(synloop_inputs.nitrogen_in[t])
    /\ NonNegative(synloop_inputs.electricity_in[t])

\* The unused output, the input and the rate of each input at timestep t.
Balance(t) ==
    [hydrogen |-> [unused |-> synloop_outputs.hydrogen_out[t],
                   input |-> synloop_inputs.hydrogen_in[t],
                   rate |-> synloop_config.hydrogen_conversion_rate],
     nitrogen |-> [unused |-> synloop_outputs.nitrogen_out[t],
                   input |-> synloop_inputs.nitrogen_in[t],
                   rate |-> synloop_config.nitrogen_conversion_rate],
     electricity |-> [unused |-> synloop_outputs.heat_out[t],
                      input |-> synloop_inputs.electricity_in[t],
                      rate |-> synloop_config.energy_demand]]

LimitingInputIsUsedUp ==
    \A t \in Timesteps :
        NonNegativeInputs(t) =>
            /\ \E name \in FeedNames : Allowed(t)[name] = synloop_outputs.ammonia_out[t]
            /\ \A name \in FeedNames :
                  /\ Allowed(t)[name] = synloop_outputs.ammonia_out[t]
                        => Balance(t)[name].unused = Zero
                  /\ NonNegative(Balance(t)[name].unused)
                  /\ Balance(t)[name].input
                        = Add(Balance(t)[name].unused,
                              Multiply(synloop_outputs.ammonia_out[t],
                                       Balance(t)[name].rate))

Configured == 1 .. Len(technology_config)

DeclaredGroup(k) == technology_config[k].financial_model.group

SomeGroupDeclared == \E k \in Configured : DeclaredGroup(k) # None

\* The positions in financial_groups of the groups holding the technology.
GroupsHolding(name) ==
    {i \in 1 .. Len(financial_groups) : InGroup(name, financial_groups[i].techs)}

\* C13: once create_financial_model has set financial_groups, no two groups
\* share an id; a technology declaring group g is held by the group of id g
\* and by no other; when some technology declares a group, a technology
\* declaring none is held by no group; when none declares a group, the only
\* group has id "1" and holds every technology of the configuration.
C13_GroupsPartitionTechnologies ==
    financial_groups # Unset =>
        /\ \A i, j \in 1 .. Len(financial_groups) :
              financial_groups[i].id = financial_groups[j].id => i = j
        /\ SomeGroupDeclared =>
              \A k \in Configured :
                  IF DeclaredGroup(k) # None
                  THEN \E i \in 1 .. Len(financial_groups) :
                          /\ financial_groups[i].id = DeclaredGroup(k)
                          /\ GroupsHolding(technology_config[k].name) = {i}
                  ELSE GroupsHolding(technology_config[k].name) = {}
        /\ ~SomeGroupDeclared =>
              /\ Len(financial_groups) = 1
              /\ financial_groups[1].id = "1"
              /\ \A k \in Configured : GroupsHolding(technology_config[k].name) = {1}
              /\ Len(financial_groups[1].techs) = Len(technology_config)

\* create_financial_model has grouped a plant of which one technology
\* declares group "2" and another declares none.
C13_Witness ==
    /\ financial_groups # Unset
    /\ \E k, l \in Configured :
          /\ DeclaredGroup(k) = "2"
          /\ DeclaredGroup(l) = None
          /\ GroupsHolding(technology_config[k].name) # {}
          /\ GroupsHolding(technology_config[l].name) = {}


\* connect_technologies has passed its financial connections.
FinancialsConnected == pc = "connect_solvers" \/ PastConstruction

OwnFinancials == {"steel", "methanol", "geoh2"}

ProvidesOwnFinancials(group) == \E name \in OwnFinancials : InGroup(name, group.techs)

\* The group holds a technology whose commodity create_financial_model prices.
HasCommodity(group) ==
    \E name \in {"electrolyzer", "ammonia", "doc", "wind", "solar", "river", "hopp"} :
        InGroup(name, group.techs)

HasFinancialsSubsystem(id) ==
    \E i \in 1 .. Len(subsystems) :
        /\ subsystems[i].parent = <<"plant">>
        /\ subsystems[i].name = <<"financials_group_", id>>

\* The connections into financials_group_{id}.
FinancialConnections(id) ==
    {i \in 1 .. Len(connections) :
        /\ Len(connections[i].tgt) >= 2
        /\ connections[i].tgt[1] = "financials_group_"
        /\ connections[i].tgt[2] = id}

\* C14: a financial group holding steel, methanol or geoh2 has no
\* financials_group_{id} subsystem and no connection into financials_group_{id};
\* connect_technologies leaves out these groups and no others, and
\* create_financial_model leaves out these groups and, besides them, only
\* the groups without a commodity.
C14_OwnFinancialsSkippedInBothStages ==
    financial_groups # Unset =>
        \A i \in 1 .. Len(financial_groups) :
            LET group == financial_groups[i]
            IN  /\ ProvidesOwnFinancials(group) =>
                      /\ ~HasFinancialsSubsystem(group.id)
                      /\ FinancialConnections(group.id) = {}
                /\ FinancialsConnected =>
                      (FinancialConnections(group.id) = {} <=> ProvidesOwnFinancials(group))
                /\ ~HasFinancialsSubsystem(group.id)
                      <=> (ProvidesOwnFinancials(group) \/ ~HasCommodity(group))

\* Both stages have passed a group that holds steel next to an electrolyzer.
C14_Witness ==
    /\ FinancialsConnected
    /\ financial_groups # Unset
    /\ \E i \in 1 .. Len(financial_groups) :
          /\ InGroup("steel", financial_groups[i].techs)
          /\ InGroup("electrolyzer", financial_groups[i].techs)
          /\ ~HasFinancialsSubsystem(financial_groups[i].id)
          /\ FinancialConnections(financial_groups[i].id) = {}


\* C15: when plant_config has no finance_parameters, financial_groups is
\* never set, no financials_group subsystem is added, no connection into a
\* financials_group is made, and no AttributeError is raised.
C15_NoFinanceParametersNoFinancials ==
    ~plant_config.finance_parameters =>
        /\ financial_groups = Unset
        /\ \A i \in 1 .. Len(subsystems) : subsystems[i].name[1] # "financials_group_"
        /\ \A i \in 1 .. Len(connections) : connections[i].tgt[1] # "financials_group_"
        /\ raised.type # "AttributeError"

\* Without finance_parameters __init__ has returned the model.
C15_Witness ==
    /\ ~plant_config.finance_parameters
    /\ pc = "constructed"
    /\ raised = NoException
    /\ financial_groups = Unset
    /\ Len(technology_config) >= 2


(***************************************************************************)
(* connect_technologies: transport components and direct connections       *)
(***************************************************************************)
Interconnections == plant_config.technology_interconnections

\* The loop over technology_interconnections is about to take up an entry.
AtInterconnection ==
    pc = "connect_technologies" /\ cursor <= Len(Interconnections)

\* The subsystems connect_technologies has added: the transport components.
Transports == SelectSeq(subsystems, LAMBDA s : Len(s.name) = 5 /\ s.name[2] = "_to_")

Port(tech, item, direction) == <<tech, ".", item, direction>>

\* The step has added one component of the class registered under the type
\* of the entry [source, dest, item, type] and has connected source.item_out
\* to its item_in and its item_out to dest.item_in, or, for a combiner, to
\* an input of the combiner.
AddsTransport(connection) ==
    /\ Len(subsystems') = Len(subsystems) + 1
    /\ SubSeq(subsystems', 1, Len(subsystems)) = subsystems
    /\ Len(connections') = Len(connections) + 2
    /\ SubSeq(connections', 1, Len(connections)) = connections
    /\ LET component == subsystems'[Len(subsystems')]
           into == connections'[Len(connections) + 1]
           out == connections'[Len(connections) + 2]
       IN  /\ component.parent = <<"plant">>
           /\ component.comp = supported_models[connection[4]]
           /\ into.src = Port(connection[1], connection[3], "_out")
           /\ into.tgt = component.name \o <<".", connection[3], "_in">>
           /\ out.src = component.name \o <<".", connection[3], "_out">>
           /\ IF Contains("combiner", connection[2])
              THEN out.tgt[1] = connection[2]
              ELSE out.tgt = Port(connection[2], connection[3], "_in")

\* The step has connected source.param to dest.param and added no component.
ConnectsDirectly(connection) ==
    /\ subsystems' = subsystems
    /\ connections' = Append(connections,
                             Connection("plant", <<connection[1], ".", connection[3]>>,
                                        <<connection[2], ".", connection[3]>>))

\* C16: the loop takes up every entry in turn; on an entry of four elements
\* whose type is registered it adds one transport component of the class
\* registered under the type and connects source.item_out to the
\* component's item_in and the component's item_out to dest.item_in (for a
\* dest that is no combiner); on an entry of three elements it connects
\* source.param to dest.param and adds no component.
C16_TransportOrDirectConnection ==
    [][AtInterconnection =>
          LET connection == Interconnections[cursor]
          IN  /\ Len(connection) = 4 /\ connection[4] \in DOMAIN supported_models
                    => cursor' = cursor + 1 /\ AddsTransport(connection)
              /\ Len(connection) = 3
                    => cursor' = cursor + 1 /\ ConnectsDirectly(connection)]_vars

\* The loop has taken up a pipe from the electrolyzer to ammonia and then
\* a direct connection: one component and three connections stand.
C16_Witness ==
    /\ pc = "connect_technologies"
    /\ cursor = 3
    /\ Interconnections[1] = <<"electrolyzer", "ammonia", "hydrogen", "pipe">>
    /\ Len(Interconnections[2]) = 3
    /\ Len(Transports) = 1
    /\ Len(connections) = 3
    /\ connections[2].tgt = Port("ammonia", "hydrogen", "_in")


\* The entries of four elements, in configuration order.
TransportEntries == SelectSeq(Interconnections, LAMBDA c : Len(c) = 4)

\* C17: the transport components of two entries that differ in source,
\* destination, transported item or transport type have different names
\* (the k-th transport component added is that of the k-th entry of four
\* elements).
C17_DistinctEntriesDistinctNames ==
    \A i, j \in 1 .. Len(Transports) :
        TransportEntries[i] # TransportEntries[j]
            => Transports[i].name # Transports[j].name


(***************************************************************************)
(* connect_technologies: the inputs of the combiners                        *)
(***************************************************************************)
\* How many entries the loop over technology_interconnections has taken up
\* (no entry of these configurations raises).
TakenUp ==
    IF pc \in {"collect_custom_models", "create_site_model", "create_plant_model",
               "create_technology_models", "create_financial_model"}
    THEN 0
    ELSE IF pc = "connect_technologies" THEN cursor - 1
    ELSE Len(Interconnections)

\* The entries of four elements taken up so far that target the combiner.
EntriesInto(combiner) ==
    SelectSeq(SubSeq(Interconnections, 1, TakenUp),
              LAMBDA c : Len(c) = 4 /\ c[2] = combiner)

\* The connections made so far into inputs of the combiner.
ConnectionsInto(combiner) ==
    SelectSeq(connections,
              LAMBDA c : c.tgt[1] = combiner /\ c.tgt[2] = ".electricity_in")

Combiners == {name \in {technology_config[k].name : k \in Configured} :
                 Contains("combiner", name)}

\* C18: for every combiner, the connections into its inputs are as many as
\* the entries of four elements taken up so far that target it, and the
\* k-th of them leads from the transport component of the k-th such entry
\* to electricity_in{k}: the inputs used are electricity_in1 to
\* electricity_in{n}, once each, whatever was connected to other combiners.
C18_CombinerInputsNumberedPerCombiner ==
    \A combiner \in Combiners :
        /\ Len(ConnectionsInto(combiner)) = Len(EntriesInto(combiner))
        /\ \A k \in 1 .. Len(ConnectionsInto(combiner)) :
              /\ ConnectionsInto(combiner)[k].tgt
                    = <<combiner, ".electricity_in", IntStr(k)>>
              /\ ConnectionsInto(combiner)[k].src[1] = EntriesInto(combiner)[k][1]

\* The loop is through with two entries into combiner_1 and, between them,
\* one into combiner_2.
C18_Witness ==
    /\ pc = "connect_resources"
    /\ Len(Interconnections) = 3
    /\ Interconnections[1][2] = "combiner_1"
    /\ Interconnections[2][2] = "combiner_2"
    /\ Interconnections[3][2] = "combiner_1"
    /\ Len(ConnectionsInto("combiner_1")) = 2
    /\ Len(ConnectionsInto("combiner_2")) = 1


(***************************************************************************)
(* connect_technologies: the solvers of the plant                          *)
(***************************************************************************)
FinancialGroupNames == {"financials_group_1", "financials_group_2"}

\* Some entry leads from a financial group to the technology ammonia.
SomeEntryFromFinancialsToAmmonia ==
    \E k \in 1 .. Len(Interconnections) :
        /\ Interconnections[k][1] \in FinancialGroupNames
        /\ Interconnections[k][2] = "ammonia"

SolversOfPlant == <<plant.nonlinear_solver, plant.linear_solver>>

\* C19: once connect_technologies has returned, the plant's solvers are
\* NonlinearBlockGS and DirectSolver if some entry of
\* technology_interconnections has a source starting with financials_group_
\* and the destination ammonia, and are the solvers the plant had before
\* otherwise; until then they are the solvers the plant had before.
C19_SolversSetIffFinancialsFeedAmmonia ==
    IF PastConstruction /\ SomeEntryFromFinancialsToAmmonia
    THEN SolversOfPlant = <<"NonlinearBlockGS", "DirectSolver">>
    ELSE SolversOfPlant = <<"NonlinearRunOnce", "LinearRunOnce">>

\* connect_technologies has returned with the solvers set for an entry from
\* financials_group_1 to ammonia that follows an entry of another kind.
C19_Witness ==
    /\ PastConstruction
    /\ Len(Interconnections) >= 2
    /\ Interconnections[1][1] \notin FinancialGroupNames
    /\ Interconnections[2] = <<"financials_group_1", "ammonia", "LCOH">>
    /\ SolversOfPlant = <<"NonlinearBlockGS", "DirectSolver">>


(***************************************************************************)
(* connect_technologies: CapEx and OpEx of a financial group               *)
(***************************************************************************)
\* How many connections lead from the output of the technology to the
\* input of financials_group_{id} built on the prefix and the technology.
Count(tech, output, id, prefix) ==
    Cardinality({i \in 1 .. Len(connections) :
                    /\ connections[i].src = <<tech, output>>
                    /\ connections[i].tgt = <<"financials_group_", id, prefix, tech>>})

\* How many connections lead from the output of the technology anywhere.
CountFrom(tech, output) ==
    Cardinality({i \in 1 .. Len(connections) : connections[i].src = <<tech, output>>})

\* C20: once connect_technologies has passed its financial connections, for
\* every financial group holding neither steel nor methanol nor geoh2 and
\* every technology of the configuration, there is one connection from
\* {tech}.CapEx to financials_group_{id}.capex_{tech} and one from
\* {tech}.OpEx to financials_group_{id}.opex_{tech} if the group holds the
\* technology, and none if it does not; CapEx and OpEx of a technology are
\* connected nowhere else.
C20_OneCapExAndOpExPerMember ==
    (FinancialsConnected /\ financial_groups # Unset) =>
        /\ \A i \in 1 .. Len(financial_groups), k \in Configured :
              LET group == financial_groups[i]
                  tech == technology_config[k].name
                  expected == IF InGroup(tech, group.techs) THEN 1 ELSE 0
              IN  ~ProvidesOwnFinancials(group) =>
                      /\ Count(tech, ".CapEx", group.id, ".capex_") = expected
                      /\ Count(tech, ".OpEx", group.id, ".opex_") = expected
        /\ \A k \in Configured :
              LET tech == technology_config[k].name
                  memberships == Cardinality({i \in GroupsHolding(tech) :
                                     ~ProvidesOwnFinancials(financial_groups[i])})
              IN  /\ CountFrom(tech, ".CapEx") = memberships
                  /\ CountFrom(tech, ".OpEx") = memberships

\* The financial connections stand for a plant of two groups, each holding
\* one technology and neither steel, methanol nor geoh2.
C20_Witness ==
    /\ FinancialsConnected
    /\ financial_groups # Unset
    /\ Len(financial_groups) = 2
    /\ \A i \in 1 .. 2 :
          /\ ~ProvidesOwnFinancials(financial_groups[i])
          /\ Len(financial_groups[i].techs) = 1
          /\ Count(financial_groups[i].techs[1], ".CapEx", financial_groups[i].id,
                   ".capex_") = 1


(***************************************************************************)
(* create_technology_models: the required performance model                *)
(***************************************************************************)
\* The loop of create_technology_models is about to take up a technology.
AtTechnology == pc = "create_technology_models" /\ cursor <= Len(technology_config)

FeedstockNames == {"feedstocks", "ng_feedstocks"}

RequiresPerformanceModel ==
    Exception("Exception", "requires_performance_model", "create_technology_models")

\* The technology names one model of the combined ones for performance and cost.
NamesCombinedModel(tech) ==
    /\ tech.performance_model.present
    /\ tech.cost_model.present
    /\ tech.performance_model.model = tech.cost_model.model
    /\ tech.performance_model.model \in {"hopp", "h2_storage", "wombat"}

\* C21: when the loop of create_technology_models takes up a technology
\* whose name does not contain feedstocks, that is no combined performance
\* and cost model and that has no performance_model entry, it raises the
\* Exception that a model definition requires performance_model, and it
\* raises that Exception for no other technology; when it takes up a
\* technology whose name contains feedstocks it adds a FeedstockComponent of
\* that name to the plant, raises nothing and leaves tech_names as it is.
C21_PerformanceModelRequiredButForFeedstocks ==
    [][AtTechnology =>
          LET tech == technology_config[cursor]
          IN  /\ (/\ tech.name \notin FeedstockNames
                  /\ ~NamesCombinedModel(tech)
                  /\ ~tech.performance_model.present)
                    <=> raised' = RequiresPerformanceModel
              /\ raised' = RequiresPerformanceModel => pc' = "raised"
              /\ tech.name \in FeedstockNames =>
                    /\ raised' = NoException
                    /\ cursor' = cursor + 1
                    /\ tech_names' = tech_names
                    /\ subsystems' = Append(subsystems,
                           Subsystem(<<"plant">>, <<tech.name>>, "FeedstockComponent"))]_vars

\* The loop has added a feedstock without a performance model and has then
\* raised for a storage that names a cost model only.
C21_Witness ==
    /\ pc = "raised"
    /\ raised = RequiresPerformanceModel
    /\ cursor = 2
    /\ technology_config[1].name = "ng_feedstocks"
    /\ technology_config[2].name = "h2_storage"
    /\ tech_names = <<"h2_storage">>
    /\ SubSeq(subsystems, Len(subsystems) - 1, Len(subsystems))
          = <<Subsystem(<<"plant">>, <<"ng_feedstocks">>, "FeedstockComponent"),
              Subsystem(<<"plant">>, <<"h2_storage">>, "Group")>>


(***************************************************************************)
(* HOPPComponent: caching switched off                                     *)
(***************************************************************************)
\* simulation_options["cache"] of the component as it stands, if given.
CacheEntry == hopp_options.config.config.simulation_options.cache

\* C22: without a cache entry in simulation_options the component caches,
\* and with cache: false it does not; a compute of a component with
\* cache: false calls setup_hopp and run_hopp once each, forms no cache
\* file name, and leaves the cache directory (and whether it exists) and
\* every file in it as they were.
C22_CacheFalseAlwaysSimulates ==
    /\ [](/\ CacheEntry = Absent => hopp_cache
          /\ CacheEntry = Given(FALSE) => ~hopp_cache)
    /\ [][(IsCompute /\ CacheEntry = Given(FALSE)) =>
             /\ hopp_calls'.setup_hopp = hopp_calls.setup_hopp + 1
             /\ hopp_calls'.run_hopp = hopp_calls.run_hopp + 1
             /\ computes'[Len(computes')].cache_file = Absent
             /\ cache_dir' = cache_dir
             /\ cache_files' = cache_files]_vars

\* A component with cache: false has computed twice and simulated twice,
\* in a working directory without cache/.
C22_Witness ==
    /\ Len(computes) = 2
    /\ \A i \in 1 .. 2 : computes[i].config.config.simulation_options.cache = Given(FALSE)
    /\ hopp_calls = [setup_hopp |-> 2, run_hopp |-> 2]
    /\ ~cache_dir
    /\ CacheEntry = Given(FALSE)


(***************************************************************************)
(* __init__ and run: the order of the stages                               *)
(***************************************************************************)
\* The place of a statement of __init__ and run in their order; the
\* configuration is loaded when collect_custom_models begins.
StageOf(statement) ==
    CASE statement = "collect_custom_models"    -> 1
      [] statement = "create_site_model"        -> 2
      [] statement = "create_plant_model"       -> 3
      [] statement = "create_technology_models" -> 4
      [] statement = "create_financial_model"   -> 5
      [] statement \in {"connect_technologies", "connect_resources",
                        "connect_financials", "connect_solvers"} -> 6
      [] statement = "create_driver_model"      -> 7
      [] statement = "constructed"              -> 8
      [] statement = "prob.setup"               -> 9
      [] statement = "prob.run_driver"          -> 10
      [] statement = "done"                     -> 11

\* Every step stays in its stage, goes on to the next one or raises.
StagesInOrder ==
    [][pc' = "raised" \/ StageOf(pc') \in {StageOf(pc), StageOf(pc) + 1}]_vars

\* No connection is made before connect_technologies.
ConnectionsOnlyWhenConnecting == pc # "raised" /\ StageOf(pc) < 6 => connections = <<>>

HasTechnologyGroup(name) ==
    \E i \in 1 .. Len(subsystems) :
        subsystems[i].parent = <<"plant">> /\ subsystems[i].name = <<name>>

\* The connection has the technology at one of its ends.
RefersToTechnology(connection, name) ==
    connection.src[1] = name \/ connection.tgt[1] = name

\* The connection has financials_group_{id} at one of its ends.
RefersToFinancialGroup(connection, id) ==
    \/ Len(connection.src) >= 2 /\ connection.src[1] = "financials_group_"
                                /\ connection.src[2] = id
    \/ Len(connection.tgt) >= 2 /\ connection.tgt[1] = "financials_group_"
                                /\ connection.tgt[2] = id

\* The group of every technology and of every financial group of the plant
\* that a connection made so far refers to has been added.
GroupsExistWhenConnected ==
    \A i \in 1 .. Len(connections) :
        /\ \A k \in Configured :
              RefersToTechnology(connections[i], technology_config[k].name)
                  => HasTechnologyGroup(technology_config[k].name)
        /\ financial_groups # Unset =>
              \A g \in 1 .. Len(financial_groups) :
                  RefersToFinancialGroup(connections[i], financial_groups[g].id)
                      => HasFinancialsSubsystem(financial_groups[g].id)

\* run: the recorder, if configured, is added before prob.setup(), which is
\* called before prob.run_driver().
RunInOrder ==
    /\ prob.setup >= 1 /\ driver_config.recorder => prob.recorder
    /\ prob.run_driver >= 1 => prob.setup >= 1

\* C23: __init__ and run go through their stages in the order
\* collect_custom_models, create_site_model, create_plant_model,
\* create_technology_models, create_financial_model, connect_technologies,
\* create_driver_model, recorder, prob.setup(), prob.run_driver(); no
\* connection is made before connect_technologies, and the group of every
\* technology and of every financial group exists when a connection
\* referring to it is made.
C23_StagesInOrderAndGroupsBeforeConnections ==
    /\ StagesInOrder
    /\ [](ConnectionsOnlyWhenConnecting /\ GroupsExistWhenConnected /\ RunInOrder)

====
